---------------------------- MODULE Spec2Model ----------------------------
(***************************************************************************)
(* BazaarBrain-Pro: the dual-model arbitration pattern of the three agents *)
(* (agents/intake_agent.py, agents/reality_capture_agent.py,               *)
(* agents/simulation_agent.py), the JSON response recovery they share and  *)
(* the pipelines built on them.                                            *)
(*                                                                         *)
(* Python values are modelled as tagged records of one uniform shape (so   *)
(* that any two of them can be compared), Python str as TLA+ strings,      *)
(* Python dict as functions on string keys.  A Python call is modelled by  *)
(* an operator returning a Result: either a value or a raised exception.   *)
(*                                                                         *)
(* SANY cannot lex a grave accent inside a string literal; the model       *)
(* writes the grave accent of a markdown fence as an apostrophe (see       *)
(* Fence) and uses the apostrophe for nothing else.                        *)
(***************************************************************************)
EXTENDS Integers, Sequences, FiniteSets, TLC

VARIABLES
    op,             \* the operation that ran last ("init" before any)
    gpt_output,     \* first argument of the last arbitration call
    gemini_output,  \* second argument of the last arbitration call
    arbitrated,     \* what the last arbitration call returned or raised
    result_object,  \* the object the arbitrated record is: a dict of its own
                    \* ("arbitrated") or one of the two arguments
    content,        \* the text handed to _parse_json_response or a fallback
    recovered,      \* what _parse_json_response returned for it
    environ,        \* the credentials set in the environment
    sample_data,    \* self.sample_data of the simulation agent
    ocr_results,    \* the file tests/ocr_results.json
    simulation_results, \* the file tests/simulation_results.json
    request,        \* the arguments of the last pipeline call
    returned,       \* what the last pipeline call returned or raised
    pc,             \* where each request stands in its _store_results
    all_results     \* the list each request holds in its _store_results

arbitration_vars == <<gpt_output, gemini_output, arbitrated, result_object>>
recovery_vars == <<content, recovered>>
pipeline_vars ==
    <<environ, sample_data, ocr_results, simulation_results, request, returned>>
log_vars == <<pc, all_results>>
vars == <<op, arbitration_vars, recovery_vars, pipeline_vars, log_vars>>

-----------------------------------------------------------------------------
(* Bounds of the model *)

\* longest "items" list of a backend record
MaxItems == 2
\* largest "total" of a backend record
MaxTotal == 2
\* the nesting of arrays and objects json.loads decodes before the
\* interpreter's recursion limit stops it (about a thousand frames in
\* CPython, scaled down here)
MaxDepth == 4

-----------------------------------------------------------------------------
(* Python / JSON values *)

VNull == [t |-> "null", n |-> 0, s |-> "", l |-> <<>>, o |-> <<>>]
VBool(b) == [t |-> "bool", n |-> IF b THEN 1 ELSE 0, s |-> "", l |-> <<>>, o |-> <<>>]
VNum(k) == [t |-> "num", n |-> k, s |-> "", l |-> <<>>, o |-> <<>>]
VStr(str) == [t |-> "str", n |-> 0, s |-> str, l |-> <<>>, o |-> <<>>]
VList(seq) == [t |-> "list", n |-> 0, s |-> "", l |-> seq, o |-> <<>>]
VObj(f) == [t |-> "obj", n |-> 0, s |-> "", l |-> <<>>, o |-> f]

\* a float is kept as a whole number of hundredths
Scale == 100
VFloat(hundredths) == [t |-> "float", n |-> hundredths, s |-> "", l |-> <<>>, o |-> <<>>]

\* Python None is what JSON null decodes to
None == VNull
EmptyDict == VObj(<<>>)

IsDict(v) == v.t = "obj"
IsNumeric(v) == v.t \in {"num", "bool", "float"}
\* the value of a number, in hundredths
NumVal(v) == IF v.t = "float" THEN v.n ELSE v.n * Scale

\* bool(v): None, False, 0, "", [] and {} are falsy
Truthy(v) ==
    CASE v.t = "null" -> FALSE
      [] v.t \in {"bool", "num", "float"} -> v.n # 0
      [] v.t = "str" -> v.s # ""
      [] v.t = "list" -> v.l # <<>>
      [] v.t = "obj" -> DOMAIN v.o # {}

\* hash(v) succeeds: list and dict are unhashable
Hashable(v) == v.t \notin {"list", "obj"}

\* a == b: deep equality; bool is a subclass of int, so True == 1, and an
\* int equals the float of the same value
RECURSIVE PyEq(_, _)
PyEq(a, b) ==
    IF IsNumeric(a) /\ IsNumeric(b) THEN NumVal(a) = NumVal(b)
    ELSE IF a.t # b.t THEN FALSE
    ELSE CASE a.t = "null" -> TRUE
           [] a.t = "str" -> a.s = b.s
           [] a.t = "list" ->
                /\ Len(a.l) = Len(b.l)
                /\ \A i \in 1..Len(a.l) : PyEq(a.l[i], b.l[i])
           [] a.t = "obj" ->
                /\ DOMAIN a.o = DOMAIN b.o
                /\ \A k \in DOMAIN a.o : PyEq(a.o[k], b.o[k])

\* The outcome of a Python call: a returned value or a raised exception
Ok(v) == [raised |-> FALSE, exc |-> "", val |-> v]
Raise(e) == [raised |-> TRUE, exc |-> e, val |-> VNull]

\* the result of a call that has not run
Pending == Ok(None)

-----------------------------------------------------------------------------
(* Characters and their order *)

\* the characters the model's strings are made of, in code point order
Alphabet == "\t\n !\"%'+,-/0123456789:ABCDEFGHIJKLMNOPQRSTUVWXYZ[\\]_abcdefghijklmnopqrstuvwxyz{}"

Char(str, i) == SubSeq(str, i, i)

\* ord(c), up to an order-preserving renumbering
Ord(c) == CHOOSE i \in 1..Len(Alphabet) : Char(Alphabet, i) = c

\* a < b on str: lexicographic by code point
RECURSIVE StrLt(_, _)
StrLt(a, b) ==
    IF b = "" THEN FALSE
    ELSE IF a = "" THEN TRUE
    ELSE IF Head(a) = Head(b) THEN StrLt(Tail(a), Tail(b))
    ELSE Ord(Head(a)) < Ord(Head(b))

\* the elements of a set of strings in ascending order
RECURSIVE SortedKeys(_)
SortedKeys(S) ==
    IF S = {} THEN <<>>
    ELSE LET least == CHOOSE k \in S : \A j \in S \ {k} : StrLt(k, j)
         IN <<least>> \o SortedKeys(S \ {least})


\* str.lower() on the model's alphabet
LowerChar(c) ==
    LET up == "ABCDEFGHIJKLMNOPQRSTUVWXYZ"
        lo == "abcdefghijklmnopqrstuvwxyz"
        at == {i \in 1..Len(up) : Char(up, i) = c}
    IN IF at = {} THEN c ELSE Char(lo, CHOOSE i \in at : TRUE)

RECURSIVE Lower(_)
Lower(str) == IF str = "" THEN "" ELSE LowerChar(Head(str)) \o Lower(Tail(str))

\* sub in str
Contains(str, sub) ==
    \E i \in 1..(Len(str) - Len(sub) + 1) : SubSeq(str, i, i + Len(sub) - 1) = sub

-----------------------------------------------------------------------------
(* dict and sequence primitives the arbitrations use *)

\* mutant of Spread: {key: tag, **d}, the record's own key wins over the tag
Spread_TagFirst(d, key, tag) ==
    IF d.t # "obj" THEN Raise("TypeError")
    ELSE Ok(VObj([k \in DOMAIN d.o \cup {key} |->
                    IF k \in DOMAIN d.o THEN d.o[k] ELSE VStr(tag)]))

\* {**d, key: tag}: unpacking anything but a mapping raises TypeError
Spread(d, key, tag) ==
    IF ~IsDict(d) THEN Raise("TypeError")
    ELSE Ok(VObj([k \in DOMAIN d.o \cup {key} |->
                    IF k = key THEN VStr(tag) ELSE d.o[k]]))

\* d.get(key, default) on a dict d
Get(d, key, default) == IF key \in DOMAIN d.o THEN d.o[key] ELSE default

\* len(v) is defined for str, list and dict, and raises TypeError otherwise
HasLen(v) == v.t \in {"str", "list", "obj"}
LenOf(v) ==
    CASE v.t = "str" -> Len(v.s)
      [] v.t = "list" -> Len(v.l)
      [] v.t = "obj" -> Cardinality(DOMAIN v.o)

\* what `for item in v` yields: the elements of a list, the characters of a
\* str, the keys of a dict (the model keeps no key order; ascending is used)
Elems(v) ==
    CASE v.t = "list" -> v.l
      [] v.t = "str" -> [i \in 1..Len(v.s) |-> VStr(Char(v.s, i))]
      [] v.t = "obj" ->
            LET ks == SortedKeys(DOMAIN v.o)
            IN [i \in 1..Len(ks) |-> VStr(ks[i])]

\* x > y: "T", "F", or "E" when Python raises TypeError
RECURSIVE PyGt(_, _)
PyGt(x, y) ==
    IF IsNumeric(x) /\ IsNumeric(y) THEN IF NumVal(x) > NumVal(y) THEN "T" ELSE "F"
    ELSE IF x.t = "str" /\ y.t = "str" THEN IF StrLt(y.s, x.s) THEN "T" ELSE "F"
    ELSE IF x.t = "list" /\ y.t = "list" THEN
        LET both == 1..(IF Len(x.l) < Len(y.l) THEN Len(x.l) ELSE Len(y.l))
            diff == {i \in both : ~PyEq(x.l[i], y.l[i])}
        IN IF diff = {} THEN IF Len(x.l) > Len(y.l) THEN "T" ELSE "F"
           ELSE LET i == CHOOSE i \in diff : \A j \in diff : i <= j
                IN PyGt(x.l[i], y.l[i])
    ELSE "E"

\* mutant of PyMax: the sum of two numbers instead of the larger
PyMax_Sum(a, b) ==
    IF PyGt(b, a) = "E" THEN Raise("TypeError")
    ELSE IF a.t = "num" /\ b.t = "num" THEN Ok(VNum(a.n + b.n))
    ELSE Ok(IF PyGt(b, a) = "T" THEN b ELSE a)

\* max(a, b): a unless b > a
PyMax(a, b) ==
    LET gt == PyGt(b, a)
    IN IF gt = "E" THEN Raise("TypeError") ELSE Ok(IF gt = "T" THEN b ELSE a)

-----------------------------------------------------------------------------
(* Provenance tags *)

AGREE == "gpt+gemini_agree"
GPT_ONLY == "gpt_only"
GEMINI_ONLY == "gemini_only"
GPT_PREFERRED == "gpt_preferred"
GEMINI_PREFERRED == "gemini_preferred"
MERGED == "merged"
FALLBACK == "fallback"
BOTH_FAILED == "both_failed"

-----------------------------------------------------------------------------
(* Keyword fallbacks *)

AnyIn(words, str) == \E w \in words : Contains(str, w)

fallback_classification_SalesFirst(user_input) ==
    LET input_lower == Lower(user_input)
        intent ==
            IF AnyIn({"image", "photo", "receipt", "bill"}, input_lower)
                THEN <<"image_processing", "reality_capture">>
            ELSE IF AnyIn({"sales", "transaction", "log"}, input_lower)
                THEN <<"sales_log", "sales">>
            ELSE IF AnyIn({"what if", "simulate", "if"}, input_lower)
                THEN <<"simulation_query", "simulation">>
            ELSE IF AnyIn({"profit", "expense", "money", "financial"}, input_lower)
                THEN <<"financial_query", "financial">>
            ELSE IF AnyIn({"stock", "inventory", "product"}, input_lower)
                THEN <<"inventory_query", "inventory">>
            ELSE <<"general", "none">>
    IN VObj([intent |-> VStr(intent[1]),
             confidence |-> VStr("low"),
             reasoning |-> VStr("Fallback classification used"),
             requires_agent |-> VStr(intent[2]),
             classification_source |-> VStr(FALLBACK)])

\* IntakeAgent._fallback_classification
fallback_classification(user_input) ==
    LET input_lower == Lower(user_input)
        intent ==
            IF AnyIn({"image", "photo", "receipt", "bill"}, input_lower)
                THEN <<"image_processing", "reality_capture">>
            ELSE IF AnyIn({"what if", "simulate", "if"}, input_lower)
                THEN <<"simulation_query", "simulation">>
            ELSE IF AnyIn({"sales", "transaction", "log"}, input_lower)
                THEN <<"sales_log", "sales">>
            ELSE IF AnyIn({"profit", "expense", "money", "financial"}, input_lower)
                THEN <<"financial_query", "financial">>
            ELSE IF AnyIn({"stock", "inventory", "product"}, input_lower)
                THEN <<"inventory_query", "inventory">>
            ELSE <<"general", "none">>
    IN VObj([intent |-> VStr(intent[1]),
             confidence |-> VStr("low"),
             reasoning |-> VStr("Fallback classification used"),
             requires_agent |-> VStr(intent[2]),
             classification_source |-> VStr(FALLBACK)])

fallback_parsing_EitherWord(query) ==
    LET query_lower == Lower(query)
        scenario ==
            IF Contains(query_lower, "increase") \/ Contains(query_lower, "price")
                THEN "increase_price"
            ELSE IF Contains(query_lower, "decrease") /\ Contains(query_lower, "price")
                THEN "decrease_price"
            ELSE IF Contains(query_lower, "bulk") \/ Contains(query_lower, "together")
                THEN "bulk_order"
            ELSE "unknown"
    IN VObj([scenario |-> VStr(scenario),
             item |-> VStr("unknown"),
             change |-> VStr("0"),
             current_value |-> None,
             units |-> VStr("%"),
             assumptions |-> VStr("Fallback parsing used"),
             simulation_type |-> VStr("Basic " \o scenario \o " simulation"),
             parsing_source |-> VStr(FALLBACK)])

\* SimulationAgent._fallback_parsing
fallback_parsing(query) ==
    LET query_lower == Lower(query)
        scenario ==
            IF Contains(query_lower, "increase") /\ Contains(query_lower, "price")
                THEN "increase_price"
            ELSE IF Contains(query_lower, "decrease") /\ Contains(query_lower, "price")
                THEN "decrease_price"
            ELSE IF Contains(query_lower, "bulk") \/ Contains(query_lower, "together")
                THEN "bulk_order"
            ELSE "unknown"
    IN VObj([scenario |-> VStr(scenario),
             item |-> VStr("unknown"),
             change |-> VStr("0"),
             current_value |-> None,
             units |-> VStr("%"),
             assumptions |-> VStr("Fallback parsing used"),
             simulation_type |-> VStr("Basic " \o scenario \o " simulation"),
             parsing_source |-> VStr(FALLBACK)])

-----------------------------------------------------------------------------
(* The three arbitrations *)

\* mutant of ConfidenceScore: the order table upside down
ConfidenceScore_Reversed(confidence) ==
    IF confidence.t # "str" THEN 1
    ELSE CASE confidence.s = "high" -> 1
           [] confidence.s = "medium" -> 2
           [] confidence.s = "low" -> 3
           [] OTHER -> 1

\* confidence_order.get(confidence, 1); the caller has checked Hashable
ConfidenceScore(confidence) ==
    IF confidence.t # "str" THEN 1
    ELSE CASE confidence.s = "high" -> 3
           [] confidence.s = "medium" -> 2
           [] confidence.s = "low" -> 1
           [] OTHER -> 1

\* arbitrate_classification, step 4: prefer the more confident classification
prefer_confident(gpt, gemini) ==
    \* .get on a str, list, number or bool raises AttributeError
    IF ~IsDict(gpt) \/ ~IsDict(gemini) THEN Raise("AttributeError")
    ELSE LET gpt_confidence == Get(gpt, "confidence", VStr("low"))
             gemini_confidence == Get(gemini, "confidence", VStr("low"))
         IN \* looking up an unhashable key raises TypeError
            IF ~Hashable(gpt_confidence) \/ ~Hashable(gemini_confidence)
                THEN Raise("TypeError")
            ELSE IF ConfidenceScore(gpt_confidence) >= ConfidenceScore(gemini_confidence)
                THEN Spread(gpt, "classification_source", GPT_PREFERRED)
            ELSE Spread(gemini, "classification_source", GEMINI_PREFERRED)

\* mutant of arbitrate_classification: the two *_only tags swapped
arbitrate_classification_OnlySwapped(gpt, gemini) ==
    IF PyEq(gpt, gemini) /\ gpt.t # "null"
        THEN Spread(gpt, "classification_source", AGREE)
    ELSE IF ~Truthy(gpt) /\ Truthy(gemini)
        THEN Spread(gemini, "classification_source", GPT_ONLY)
    ELSE IF ~Truthy(gemini) /\ Truthy(gpt)
        THEN Spread(gpt, "classification_source", GEMINI_ONLY)
    ELSE IF ~Truthy(gpt) /\ ~Truthy(gemini)
        THEN Ok(fallback_classification(""))
    ELSE prefer_confident(gpt, gemini)

\* IntakeAgent.arbitrate_classification
arbitrate_classification(gpt, gemini) ==
    IF PyEq(gpt, gemini) /\ gpt.t # "null"
        THEN Spread(gpt, "classification_source", AGREE)
    ELSE IF ~Truthy(gpt) /\ Truthy(gemini)
        THEN Spread(gemini, "classification_source", GEMINI_ONLY)
    ELSE IF ~Truthy(gemini) /\ Truthy(gpt)
        THEN Spread(gpt, "classification_source", GPT_ONLY)
    ELSE IF ~Truthy(gpt) /\ ~Truthy(gemini)
        THEN Ok(fallback_classification(""))
    ELSE prefer_confident(gpt, gemini)

\* mutant of prefer_complete: > for >=, a tie goes to the secondary
prefer_complete_Strict(gpt, gemini) ==
    IF ~HasLen(gpt) \/ ~HasLen(gemini) THEN Raise("TypeError")
    ELSE IF LenOf(gpt) > LenOf(gemini)
        THEN Spread(gpt, "parsing_source", GPT_PREFERRED)
    ELSE Spread(gemini, "parsing_source", GEMINI_PREFERRED)

\* arbitrate_parsing, step 4: prefer the more complete output
prefer_complete(gpt, gemini) ==
    \* len of a number or bool raises TypeError
    IF ~HasLen(gpt) \/ ~HasLen(gemini) THEN Raise("TypeError")
    ELSE IF LenOf(gpt) >= LenOf(gemini)
        THEN Spread(gpt, "parsing_source", GPT_PREFERRED)
    ELSE Spread(gemini, "parsing_source", GEMINI_PREFERRED)

\* SimulationAgent.arbitrate_parsing
arbitrate_parsing(gpt, gemini) ==
    IF PyEq(gpt, gemini) /\ gpt.t # "null"
        THEN Spread(gpt, "parsing_source", AGREE)
    ELSE IF ~Truthy(gpt) /\ Truthy(gemini)
        THEN Spread(gemini, "parsing_source", GEMINI_ONLY)
    ELSE IF ~Truthy(gemini) /\ Truthy(gpt)
        THEN Spread(gpt, "parsing_source", GPT_ONLY)
    ELSE IF ~Truthy(gpt) /\ ~Truthy(gemini)
        THEN Ok(fallback_parsing(""))
    ELSE prefer_complete(gpt, gemini)

\* the loop of arbitrate_ocr over the secondary's items: append each one that
\* is not yet in merged_items
RECURSIVE MergeItems(_, _)
MergeItems(merged_items, rest) ==
    IF rest = <<>> THEN Ok(merged_items)
    ELSE LET item == Head(rest)
         IN IF merged_items.t = "list"
                THEN IF \E i \in 1..Len(merged_items.l) : PyEq(item, merged_items.l[i])
                        THEN MergeItems(merged_items, Tail(rest))
                        ELSE MergeItems(VList(Append(merged_items.l, item)), Tail(rest))
            \* merged_items is a dict: membership hashes the item, and a dict
            \* has no append
            ELSE IF ~Hashable(item) THEN Raise("TypeError")
            ELSE IF item.t = "str" /\ item.s \in DOMAIN merged_items.o
                THEN MergeItems(merged_items, Tail(rest))
            ELSE Raise("AttributeError")

\* mutant of BothFailedRecord: the error message left out
BothFailedRecord_NoError ==
    VObj([items |-> VList(<<>>), total |-> VNum(0), source |-> VStr(BOTH_FAILED)])

\* the record arbitrate_ocr returns when both outcomes are falsy
BothFailedRecord ==
    VObj([items |-> VList(<<>>),
          total |-> VNum(0),
          source |-> VStr(BOTH_FAILED),
          error |-> VStr("Both LLMs failed to process the image")])

\* arbitrate_ocr, step 5: merge the two records
merge_ocr(gpt, gemini, gpt_items, gemini_items) ==
    \* gpt_items.copy(): a str has no copy()
    IF gpt_items.t = "str" THEN Raise("AttributeError")
    ELSE LET merged_items == MergeItems(gpt_items, Elems(gemini_items))
             total == PyMax(Get(gpt, "total", VNum(0)),
                            Get(gemini, "total", VNum(0)))
         IN IF merged_items.raised THEN merged_items
            ELSE IF total.raised THEN total
            ELSE LET merged == [items |-> merged_items.val,
                                total |-> total.val,
                                source |-> VStr(MERGED)]
                     more == IF LenOf(gpt) > LenOf(gemini)
                                THEN gpt.o ELSE gemini.o
                 IN Ok(VObj([k \in DOMAIN merged \cup DOMAIN more |->
                                IF k \in DOMAIN merged
                                    THEN merged[k] ELSE more[k]]))

\* mutant of compare_items: the records' key counts compared, not the items'
compare_items_ByKeys(gpt, gemini) ==
    IF ~IsDict(gpt) \/ ~IsDict(gemini) THEN Raise("AttributeError")
    ELSE LET gpt_items == Get(gpt, "items", VList(<<>>))
             gemini_items == Get(gemini, "items", VList(<<>>))
         IN IF ~HasLen(gpt_items) \/ ~HasLen(gemini_items) THEN Raise("TypeError")
            ELSE IF LenOf(gpt) > LenOf(gemini)
                THEN Spread(gpt, "source", GPT_PREFERRED)
            ELSE IF LenOf(gemini) > LenOf(gpt)
                THEN Spread(gemini, "source", GEMINI_PREFERRED)
            ELSE merge_ocr(gpt, gemini, gpt_items, gemini_items)

\* arbitrate_ocr, step 4: compare the lengths of the items
compare_items(gpt, gemini) ==
    \* .get on a str, list, number or bool raises AttributeError
    IF ~IsDict(gpt) \/ ~IsDict(gemini) THEN Raise("AttributeError")
    ELSE LET gpt_items == Get(gpt, "items", VList(<<>>))
             gemini_items == Get(gemini, "items", VList(<<>>))
         IN \* len of None, a number or a bool raises TypeError
            IF ~HasLen(gpt_items) \/ ~HasLen(gemini_items) THEN Raise("TypeError")
            ELSE IF LenOf(gpt_items) > LenOf(gemini_items)
                THEN Spread(gpt, "source", GPT_PREFERRED)
            ELSE IF LenOf(gemini_items) > LenOf(gpt_items)
                THEN Spread(gemini, "source", GEMINI_PREFERRED)
            ELSE merge_ocr(gpt, gemini, gpt_items, gemini_items)

\* RealityCaptureAgent.arbitrate_ocr
arbitrate_ocr(gpt, gemini) ==
    IF PyEq(gpt, gemini) /\ gpt.t # "null"
        THEN Spread(gpt, "source", AGREE)
    ELSE IF ~Truthy(gpt) /\ Truthy(gemini)
        THEN Spread(gemini, "source", GEMINI_ONLY)
    ELSE IF ~Truthy(gemini) /\ Truthy(gpt)
        THEN Spread(gpt, "source", GPT_ONLY)
    ELSE IF ~Truthy(gpt) /\ ~Truthy(gemini)
        THEN Ok(BothFailedRecord)
    ELSE compare_items(gpt, gemini)

-----------------------------------------------------------------------------
(* Backend outcomes the model draws its inputs from *)

\* marks a key a record does not have; never a value of the program
Missing == [t |-> "missing", n |-> 0, s |-> "", l |-> <<>>, o |-> <<>>]

\* the dict with the keys of f that are not Missing
MkObj(f) == VObj([k \in {j \in DOMAIN f : f[j] # Missing} |-> f[k]])

SeqsUpTo(S, n) == UNION {[1..k -> S] : k \in 0..n}

\* what JSON recovery can hand over that is not a dict
NonDicts ==
    {None, VList(<<>>), VList(<<VNum(1)>>), VStr("ok"), VNum(0), VNum(7), VBool(TRUE)}

Rice == VObj([name |-> VStr("rice"), qty |-> VNum(2)])
Sugar == VObj([name |-> VStr("sugar"), qty |-> VNum(1)])
ItemLists == SeqsUpTo({Rice, Sugar}, MaxItems)

\* receipts with a list of items and a numeric total, each key optional
OcrTyped ==
    {MkObj([items |-> i, total |-> tt, source |-> src, vendor |-> vd]) :
        i \in {Missing} \cup {VList(l) : l \in ItemLists},
        tt \in {Missing} \cup {VNum(k) : k \in 0..MaxTotal},
        src \in {Missing, VStr("scan")},
        vd \in {Missing, VStr("kirana")}}

\* receipts whose items or total is of another JSON type
OcrUntyped ==
    {MkObj([items |-> i, total |-> VNum(1)]) :
        i \in {None, VNum(3), VStr(""), VStr("ab"), EmptyDict,
               VObj([name |-> VStr("rice")])}}
    \cup
    {MkObj([items |-> VList(<<Rice>>), total |-> tt]) :
        tt \in {None, VStr("12"), VStr("9"), VBool(TRUE), VList(<<VNum(1)>>)}}

OcrOutcomes == OcrTyped \cup OcrUntyped \cup NonDicts

ClassificationOutcomes ==
    {MkObj([intent |-> VStr(i), confidence |-> c, requires_agent |-> ra,
            classification_source |-> src]) :
        i \in {"general", "simulation_query"},
        c \in {Missing, VStr("high"), VStr("medium"), VStr("low"), VStr("HIGH"),
               None, VNum(3), VList(<<VStr("high")>>)},
        ra \in {Missing, VStr("simulation")},
        src \in {Missing, VStr("llm")}}
    \cup {EmptyDict} \cup NonDicts

ParsingOutcomes ==
    {MkObj([scenario |-> sc, item |-> it, change |-> ch, units |-> un,
            parsing_source |-> src]) :
        sc \in {Missing, VStr("increase_price"), VStr("bulk_order")},
        it \in {Missing, VStr("rice"), VStr("sugar")},
        ch \in {Missing, VStr("+5%")},
        un \in {Missing, VStr("%")},
        src \in {Missing, VStr("llm")}}
    \cup NonDicts

-----------------------------------------------------------------------------
(* JSON text: the decoder of json.loads and the text a backend renders *)

\* the grave accent fence of markdown, written with apostrophes
Fence == "'''"
FenceJson == Fence \o "json"

\* characters str.strip() removes
PyWhitespace == {" ", "\t", "\n", "\r", "\f"}
\* characters the JSON decoder skips between tokens
JsonWhitespace == {" ", "\t", "\n", "\r"}
\* characters below 0x20, which a JSON string may not contain unescaped
ControlChars == {"\t", "\n", "\r", "\f"}
Digits == "0123456789"
IsDigit(c) == c # "" /\ Contains(Digits, c)
DigitValue(c) == (CHOOSE i \in 1..10 : Char(Digits, i) = c) - 1

StartsWith(str, prefix) ==
    Len(str) >= Len(prefix) /\ SubSeq(str, 1, Len(prefix)) = prefix
EndsWith(str, suffix) ==
    Len(str) >= Len(suffix)
        /\ SubSeq(str, Len(str) - Len(suffix) + 1, Len(str)) = suffix

RECURSIVE LStrip(_)
LStrip(str) ==
    IF str # "" /\ Head(str) \in PyWhitespace THEN LStrip(Tail(str)) ELSE str
RECURSIVE RStrip(_)
RStrip(str) ==
    IF str # "" /\ Char(str, Len(str)) \in PyWhitespace
    THEN RStrip(SubSeq(str, 1, Len(str) - 1))
    ELSE str
\* str.strip()
Strip(str) == RStrip(LStrip(str))

\* outcome of scanning one JSON construct: "ok" with the value and the
\* index after it, "error" for JSONDecodeError, "beyond" for a text whose
\* value this model does not represent (a number that is not an integer:
\* NaN, Infinity, a fraction, an exponent; a \b or \u escape)
Scanned(v, next) == [st |-> "ok", v |-> v, next |-> next]
ScanError == [st |-> "error", v |-> VNull, next |-> 0]
ScanBeyond == [st |-> "beyond", v |-> VNull, next |-> 0]
\* RecursionError: the text nests deeper than the interpreter recurses
ScanTooDeep == [st |-> "recursion", v |-> VNull, next |-> 0]

\* index of the first character at or after i that is not JSON whitespace
RECURSIVE SkipWhitespace(_, _)
SkipWhitespace(str, i) ==
    IF i <= Len(str) /\ Char(str, i) \in JsonWhitespace
    THEN SkipWhitespace(str, i + 1)
    ELSE i

\* the body of a JSON string from index i, the opening quote consumed
RECURSIVE ScanString(_, _, _)
ScanString(str, i, acc) ==
    IF i > Len(str) THEN ScanError
    ELSE LET c == Char(str, i) IN
        IF c = "\"" THEN Scanned(VStr(acc), i + 1)
        ELSE IF c \in ControlChars THEN ScanError
        ELSE IF c # "\\" THEN ScanString(str, i + 1, acc \o c)
        ELSE IF i + 1 > Len(str) THEN ScanError
        ELSE LET esc == Char(str, i + 1) IN
            IF esc \in {"\"", "\\", "/"} THEN ScanString(str, i + 2, acc \o esc)
            ELSE IF esc = "n" THEN ScanString(str, i + 2, acc \o "\n")
            ELSE IF esc = "t" THEN ScanString(str, i + 2, acc \o "\t")
            ELSE IF esc = "r" THEN ScanString(str, i + 2, acc \o "\r")
            ELSE IF esc = "f" THEN ScanString(str, i + 2, acc \o "\f")
            ELSE IF esc \in {"b", "u"} THEN ScanBeyond
            ELSE ScanError

\* the digits of an integer from index i
RECURSIVE ScanDigits(_, _, _)
ScanDigits(str, i, acc) ==
    IF i <= Len(str) /\ IsDigit(Char(str, i))
    THEN ScanDigits(str, i + 1, 10 * acc + DigitValue(Char(str, i)))
    ELSE Scanned(VNum(acc), i)

\* NUMBER_RE of json.scanner: -?(0|[1-9]\d*) and then no fraction or exponent
ScanNumber(str, i) ==
    LET neg == Char(str, i) = "-"
        first == IF neg THEN i + 1 ELSE i
        c == IF first <= Len(str) THEN Char(str, first) ELSE ""
        int == IF c = "0" THEN Scanned(VNum(0), first + 1)
               ELSE ScanDigits(str, first, 0)
        after == IF int.next <= Len(str) THEN Char(str, int.next) ELSE ""
        exponent == after \in {"e", "E"}
            /\ LET k == IF int.next + 1 <= Len(str)
                            /\ Char(str, int.next + 1) \in {"+", "-"}
                        THEN int.next + 2 ELSE int.next + 1
               IN k <= Len(str) /\ IsDigit(Char(str, k))
        fraction == after = "."
            /\ int.next + 1 <= Len(str) /\ IsDigit(Char(str, int.next + 1))
    IN  IF ~IsDigit(c)
        THEN (IF neg /\ StartsWith(SubSeq(str, first, Len(str)), "Infinity")
              THEN ScanBeyond ELSE ScanError)
        ELSE IF exponent \/ fraction THEN ScanBeyond
        ELSE Scanned(VNum(IF neg THEN 0 - int.v.n ELSE int.v.n), int.next)

\* d[key] = value
Put(f, key, v) ==
    [k \in DOMAIN f \cup {key} |-> IF k = key THEN v ELSE f[k]]

\* scan_once, JSONObject and JSONArray of json.decoder
\* depth counts the arrays and objects around the construct
RECURSIVE ScanValue(_, _, _), ScanMembers(_, _, _, _), ScanElements(_, _, _, _)
ScanValue(str, i, depth) ==
    IF i > Len(str) THEN ScanError
    ELSE LET c == Char(str, i)
             rest == SubSeq(str, i, Len(str))
         IN
        IF c = "\"" THEN ScanString(str, i + 1, "")
        ELSE IF c \in {"{", "["} /\ depth >= MaxDepth THEN ScanTooDeep
        ELSE IF c = "{" THEN
            LET k == SkipWhitespace(str, i + 1) IN
            IF k <= Len(str) /\ Char(str, k) = "}" THEN Scanned(EmptyDict, k + 1)
            ELSE ScanMembers(str, k, <<>>, depth + 1)
        ELSE IF c = "[" THEN
            LET k == SkipWhitespace(str, i + 1) IN
            IF k <= Len(str) /\ Char(str, k) = "]" THEN Scanned(VList(<<>>), k + 1)
            ELSE ScanElements(str, k, <<>>, depth + 1)
        ELSE IF StartsWith(rest, "null") THEN Scanned(VNull, i + 4)
        ELSE IF StartsWith(rest, "true") THEN Scanned(VBool(TRUE), i + 4)
        ELSE IF StartsWith(rest, "false") THEN Scanned(VBool(FALSE), i + 5)
        ELSE IF StartsWith(rest, "NaN") \/ StartsWith(rest, "Infinity") THEN ScanBeyond
        ELSE IF c = "-" \/ IsDigit(c) THEN ScanNumber(str, i)
        ELSE ScanError

\* the members of an object from index i, which must hold the quote of a key
ScanMembers(str, i, acc, depth) ==
    IF i > Len(str) \/ Char(str, i) # "\"" THEN ScanError
    ELSE LET key == ScanString(str, i + 1, "") IN
        IF key.st # "ok" THEN key
        ELSE LET colon == SkipWhitespace(str, key.next) IN
            IF colon > Len(str) \/ Char(str, colon) # ":" THEN ScanError
            ELSE LET value == ScanValue(str, SkipWhitespace(str, colon + 1), depth) IN
                IF value.st # "ok" THEN value
                ELSE LET
                    members == Put(acc, key.v.s, value.v)
                    k == SkipWhitespace(str, value.next)
                IN  IF k > Len(str) THEN ScanError
                    ELSE IF Char(str, k) = "}" THEN Scanned(VObj(members), k + 1)
                    ELSE IF Char(str, k) = ","
                        THEN ScanMembers(str, SkipWhitespace(str, k + 1), members, depth)
                    ELSE ScanError

\* the elements of an array from index i, which must hold a value
ScanElements(str, i, acc, depth) ==
    LET value == ScanValue(str, i, depth) IN
    IF value.st # "ok" THEN value
    ELSE LET
        elements == Append(acc, value.v)
        k == SkipWhitespace(str, value.next)
    IN  IF k > Len(str) THEN ScanError
        ELSE IF Char(str, k) = "]" THEN Scanned(VList(elements), k + 1)
        ELSE IF Char(str, k) = ","
            THEN ScanElements(str, SkipWhitespace(str, k + 1), elements, depth)
        ELSE ScanError

\* JSONDecoder.decode on the value raw_decode scanned: only whitespace may
\* follow it
decode(str, value) ==
    IF value.st # "ok" THEN value
    ELSE IF SkipWhitespace(str, value.next) = Len(str) + 1 THEN value
    ELSE ScanError

\* json.loads(str): one value, whitespace around it, and nothing else
json_loads(str) == decode(str, ScanValue(str, SkipWhitespace(str, 1), 0))

\* what _parse_json_response hands to json.loads: the text stripped, a
\* leading fence with its "json" label and a trailing fence removed, and
\* stripped again
Unfence(text) ==
    LET stripped == Strip(text)
        opened == IF StartsWith(stripped, FenceJson)
                  THEN SubSeq(stripped, 8, Len(stripped)) ELSE stripped
        closed == IF EndsWith(opened, Fence)
                  THEN SubSeq(opened, 1, Len(opened) - 3) ELSE opened
    IN  Strip(closed)

\* try: return json.loads(content); except json.JSONDecodeError: return
\* None; any other exception leaves the method
DecodedOrNone(decoded) ==
    CASE decoded.st = "ok" -> Ok(decoded.v)
      [] decoded.st = "recursion" -> Raise("RecursionError")
      [] OTHER -> Ok(None)

parse_json_response_FenceKept(text) == DecodedOrNone(json_loads(Strip(text)))

\* _parse_json_response(content), defined alike in the three agents: the
\* decoded value, None on JSONDecodeError
parse_json_response(text) == DecodedOrNone(json_loads(Unfence(text)))

\* the texts this model decodes: their value, if any, is one it represents
Decodable(text) == json_loads(Unfence(text)).st # "beyond"

-----------------------------------------------------------------------------
(* The JSON text of a value, as a backend renders it *)

RECURSIVE DigitsOf(_)
DigitsOf(k) ==
    IF k < 10 THEN Char(Digits, k + 1)
    ELSE DigitsOf(k \div 10) \o Char(Digits, (k % 10) + 1)
NumText(k) == IF k < 0 THEN "-" \o DigitsOf(0 - k) ELSE DigitsOf(k)

EscapeChar(c) ==
    CASE c = "\"" -> "\\\""
      [] c = "\\" -> "\\\\"
      [] c = "\n" -> "\\n"
      [] c = "\t" -> "\\t"
      [] c = "\r" -> "\\r"
      [] c = "\f" -> "\\f"
      [] OTHER -> c

RECURSIVE Escape(_)
Escape(str) == IF str = "" THEN "" ELSE EscapeChar(Head(str)) \o Escape(Tail(str))
Quote(str) == "\"" \o Escape(str) \o "\""

RECURSIVE Join(_, _)
Join(texts, sep) ==
    IF texts = <<>> THEN ""
    ELSE IF Len(texts) = 1 THEN texts[1]
    ELSE texts[1] \o sep \o Join(Tail(texts), sep)

Reverse(seq) == [i \in 1..Len(seq) |-> seq[Len(seq) + 1 - i]]

\* how a backend lays a JSON text out: separators, padding inside
\* brackets, and the order it writes the keys of an object in
Compact == [item |-> ",", key |-> ":", pad |-> "", descending |-> FALSE]
Spaced == [item |-> ", ", key |-> ": ", pad |-> "", descending |-> FALSE]
Indented == [item |-> ",\n  ", key |-> ": ", pad |-> "\n", descending |-> TRUE]
Layouts == {Compact, Spaced, Indented}

RECURSIVE toJsonText(_, _)
toJsonText(v, layout) ==
    CASE v.t = "null" -> "null"
      [] v.t = "bool" -> (IF v.n = 1 THEN "true" ELSE "false")
      [] v.t = "num" -> NumText(v.n)
      [] v.t = "str" -> Quote(v.s)
      [] v.t = "list" ->
            IF v.l = <<>> THEN "[]"
            ELSE "[" \o layout.pad
                \o Join([i \in 1..Len(v.l) |-> toJsonText(v.l[i], layout)], layout.item)
                \o layout.pad \o "]"
      [] v.t = "obj" ->
            IF DOMAIN v.o = {} THEN "{}"
            ELSE LET ascending == SortedKeys(DOMAIN v.o)
                     keys == IF layout.descending THEN Reverse(ascending) ELSE ascending
                 IN "{" \o layout.pad
                    \o Join([i \in 1..Len(keys) |->
                                Quote(keys[i]) \o layout.key \o toJsonText(v.o[keys[i]], layout)],
                            layout.item)
                    \o layout.pad \o "}"

\* the ways a backend wraps the JSON text in its reply
Wrappings == {"bare", "padded", "fenced", "fenced_tight", "fenced_padded"}
Wrap(text, wrapping) ==
    CASE wrapping = "bare" -> text
      [] wrapping = "padded" -> " \n" \o text \o "\n\t "
      [] wrapping = "fenced" -> FenceJson \o "\n" \o text \o "\n" \o Fence
      [] wrapping = "fenced_tight" -> FenceJson \o text \o Fence
      [] wrapping = "fenced_padded" ->
            "\n  " \o FenceJson \o " \n" \o text \o "\n \n" \o Fence \o " \n"

-----------------------------------------------------------------------------
(* Texts a backend replies with *)

\* records whose strings, numbers and nesting exercise the JSON syntax
TrickyRecords ==
    { VObj("note" :> VStr(str)) :
        str \in {"", "say \"hi\"", "a\\b", "line1\nline2\ttab", Fence, FenceJson,
                 "{}[],:", "null", "  padded  ", "\\\"", "ends with " \o Fence} }
    \cup { VObj("k" :> v) :
        v \in {VNum(-7), VNum(0), VNum(120), VBool(TRUE), VBool(FALSE), VNull,
               VList(<<>>), EmptyDict,
               VList(<<VNum(1), VList(<<VNum(2)>>), VObj("z" :> VNull)>>),
               VObj("b" :> VObj("c" :> VStr("d")))} }
    \cup { VObj("" :> VNum(0)), VObj(Fence :> VNum(1)),
           VObj(("a b" :> VStr("x")) @@ ("A" :> VStr("y")) @@ ("a" :> VStr("z"))) }

\* the well-formed records a backend renders
WellFormedRecords ==
    {r \in OcrOutcomes \cup ClassificationOutcomes \cup ParsingOutcomes : IsDict(r)}
        \cup TrickyRecords

\* every reply that is the JSON text of a well-formed record, with the
\* record it renders
Renderings ==
    { [record |-> r, text |-> Wrap(toJsonText(r, layout), wrapping)] :
        r \in WellFormedRecords, layout \in Layouts, wrapping \in Wrappings }

\* str * n
RECURSIVE Repeat(_, _)
Repeat(str, n) == IF n = 0 THEN "" ELSE str \o Repeat(str, n - 1)

\* the JSON text of 1 inside n arrays
NestedArray(n) == Repeat("[", n) \o "1" \o Repeat("]", n)

\* JSON texts whose value is not a record
NonRecordTexts ==
    {"null", "[1]", "[]", "\"ok\"", "7", "-0", "true", " false ",
     FenceJson \o "\n[{\"name\": \"rice\"}]\n" \o Fence,
     NestedArray(MaxDepth), NestedArray(MaxDepth + 1)}

\* replies that are not the JSON text of anything, or not only that
MalformedTexts ==
    {"", " ", " \n\t ", "sorry, I cannot read this", "not json{{{",
     Fence, FenceJson, FenceJson \o Fence, FenceJson \o "\n" \o Fence,
     Repeat("[", MaxDepth), Repeat("[", MaxDepth + 1),
     "{", "{\"a\": 1", "{\"a\": 1,}", "{\"a\" 1}", "{a: 1}", "[1,]", "{\"a\": 01}",
     "{\"a\": 1} thanks", "{\"a\": 1}{\"b\": 2}", "{\"a\": \"x\ny\"}",
     "{\"a\": \"\\q\"}", "{\"a\": tru}", "{\"a\": -}",
     "Here it is: {\"a\": 1}",
     Fence \o "\n{\"a\": 1}\n" \o Fence,
     Fence \o "JSON\n{\"a\": 1}\n" \o Fence,
     FenceJson \o "\n{\"a\": 1}\n" \o Fence \o "\nanything else?"}

\* a record written with a key twice and with a trailing fence only
OddTexts ==
    {"{\"a\": 1, \"a\": 2}", "{\"a\": 1}\n" \o Fence, "{ }", "{\"a\" : [ ] }"}

ReplyTexts ==
    {p.text : p \in Renderings} \cup NonRecordTexts \cup MalformedTexts \cup OddTexts

-----------------------------------------------------------------------------
(* The simulation calculations *)

\* Exact arithmetic: a number as num / den with den > 0, in lowest terms
RECURSIVE Gcd(_, _)
Gcd(a, b) == IF b = 0 THEN a ELSE Gcd(b, a % b)
Abs(k) == IF k < 0 THEN 0 - k ELSE k
Rat(num, den) ==
    LET g == Gcd(Abs(num), den)
    IN  [num |-> num \div g, den |-> den \div g]
RatOf(v) == Rat(NumVal(v), Scale)
RatMul(a, b) ==
    LET x == Rat(a.num, b.den)
        y == Rat(b.num, a.den)
    IN  Rat(x.num * y.num, x.den * y.den)
RatSub(a, b) == Rat(a.num * b.den - b.num * a.den, a.den * b.den)

\* round(num / den, 0) for den > 0.  On an exact tie the even neighbour is
\* taken, as Python does when the float it rounds is exact; the calculations
\* of this model meet no tie.
RoundDiv(num, den) ==
    LET q == num \div den
        r == num % den
    IN  IF 2 * r > den \/ (2 * r = den /\ q % 2 = 1) THEN q + 1 ELSE q

\* as Round2, but to a whole number
Round2_Whole(x) == VFloat(RoundDiv(x.num, x.den) * Scale)

\* round(x, 2) as a float
Round2(x) == VFloat(RoundDiv(x.num * Scale, x.den))

\* str.replace(ch, "") for a one-character ch
RECURSIVE Remove(_, _)
Remove(str, ch) ==
    IF str = "" THEN ""
    ELSE (IF Head(str) = ch THEN "" ELSE Head(str)) \o Remove(Tail(str), ch)

AllDigits(str) == str # "" /\ \A i \in 1..Len(str) : IsDigit(Char(str, i))

\* float(text) for the texts of this model, which hold no fraction,
\* exponent, underscore, inf or nan: an optionally signed run of digits with
\* whitespace around it, ValueError otherwise
FloatOf(text) ==
    LET stripped == Strip(text)
        signed == stripped # "" /\ Head(stripped) \in {"+", "-"}
        digits == IF signed THEN Tail(stripped) ELSE stripped
    IN  IF ~AllDigits(digits) THEN Raise("ValueError")
        ELSE LET k == ScanDigits(digits, 1, 0).v.n
             IN Ok(VNum(IF signed /\ Head(stripped) = "-" THEN 0 - k ELSE k))

\* float(params.get("change", "0").replace(sign, "").replace("%", ""))
ChangePercent(params, sign) ==
    LET change == Get(params, "change", VStr("0"))
    IN  IF change.t # "str" THEN Raise("AttributeError")
        ELSE FloatOf(Remove(Remove(change.s, sign), "%"))

\* as FirstNumber, but the first digit alone is taken for the number
RECURSIVE FirstNumber_FirstDigit(_)
FirstNumber_FirstDigit(str) ==
    IF str = "" THEN 10
    ELSE IF IsDigit(Head(str)) THEN DigitValue(Head(str))
    ELSE FirstNumber_FirstDigit(Tail(str))

\* int(re.findall(r'\d+', change_str)[0]) if there is a run of digits, else 10
RECURSIVE FirstNumber(_)
FirstNumber(str) ==
    IF str = "" THEN 10
    ELSE IF IsDigit(Head(str)) THEN ScanDigits(str, 1, 0).v.n
    ELSE FirstNumber(Tail(str))

\* the float k written by an f-string, for an integral k
FloatText(k) == NumText(k) \o ".0"

\* as Max, but the second argument is returned whatever the first
Max_Second(a, b) == b

\* max(a, b)
Max(a, b) == IF a >= b THEN a ELSE b
Min(a, b) == IF a <= b THEN a ELSE b

\* the except branch of a calculation; the message names the exception
SimulationFailed(exc) ==
    Ok(VObj("error" :> VStr("Simulation failed: " \o exc)))

\* the exception reading price, cost and weekly sales of product_data for
\* arithmetic raises, "" when it raises none
ProductFault(product_data) ==
    IF ~IsDict(product_data) THEN "TypeError"
    ELSE IF "current_price" \notin DOMAIN product_data.o
            \/ "current_cost" \notin DOMAIN product_data.o
            \/ "weekly_sales" \notin DOMAIN product_data.o THEN "KeyError"
    ELSE IF \E k \in {"current_price", "current_cost", "weekly_sales"} :
                ~IsNumeric(product_data.o[k]) THEN "TypeError"
    ELSE ""

\* _simulate_price_increase(params, product_data)
simulate_price_increase(params, product_data) ==
    LET percent == ChangePercent(params, "+")
        fault == ProductFault(product_data)
    IN  IF percent.raised THEN SimulationFailed(percent.exc)
        ELSE IF fault # "" THEN SimulationFailed(fault)
        ELSE LET
            change_percent == percent.val.n
            current_price == RatOf(product_data.o["current_price"])
            current_cost == RatOf(product_data.o["current_cost"])
            weekly_sales == RatOf(product_data.o["weekly_sales"])
            new_price == RatMul(current_price, Rat(100 + change_percent, 100))
            old_profit_per_unit == RatSub(current_price, current_cost)
            new_profit_per_unit == RatSub(new_price, current_cost)
            \* max(0.5, 1 - change_percent * 0.02), in percent
            impact_percent == Max(50, 100 - 2 * change_percent)
            new_sales == RatMul(weekly_sales, Rat(impact_percent, 100))
            old_weekly_profit == RatMul(old_profit_per_unit, weekly_sales)
            new_weekly_profit == RatMul(new_profit_per_unit, new_sales)
            profit_change == RatSub(new_weekly_profit, old_weekly_profit)
        IN Ok(VObj(
            ("scenario" :> VStr("increase_price"))
            @@ ("item" :> Get(params, "item", VStr("unknown")))
            @@ ("change" :> VStr("+" \o FloatText(change_percent) \o "%"))
            @@ ("current_price" :> product_data.o["current_price"])
            @@ ("new_price" :> Round2(new_price))
            @@ ("current_weekly_profit" :> Round2(old_weekly_profit))
            @@ ("new_weekly_profit" :> Round2(new_weekly_profit))
            @@ ("profit_change" :> Round2(profit_change))
            @@ ("sales_impact" :> VStr(FloatText(impact_percent) \o "%"))
            @@ ("assumptions" :> VStr("Sales decrease by "
                    \o FloatText(100 - impact_percent) \o "% with price increase"))
            @@ ("recommendation" :>
                    VStr("Consider gradual price increases to minimize sales impact"))))

\* _simulate_price_decrease(params, product_data)
simulate_price_decrease(params, product_data) ==
    LET percent == ChangePercent(params, "-")
        fault == ProductFault(product_data)
    IN  IF percent.raised THEN SimulationFailed(percent.exc)
        ELSE IF fault # "" THEN SimulationFailed(fault)
        ELSE LET
            change_percent == percent.val.n
            current_price == RatOf(product_data.o["current_price"])
            current_cost == RatOf(product_data.o["current_cost"])
            weekly_sales == RatOf(product_data.o["weekly_sales"])
            new_price == RatMul(current_price, Rat(100 - change_percent, 100))
            old_profit_per_unit == RatSub(current_price, current_cost)
            new_profit_per_unit == RatSub(new_price, current_cost)
            \* 1 + change_percent * 0.03, in percent
            impact_percent == 100 + 3 * change_percent
            new_sales == RatMul(weekly_sales, Rat(impact_percent, 100))
            old_weekly_profit == RatMul(old_profit_per_unit, weekly_sales)
            new_weekly_profit == RatMul(new_profit_per_unit, new_sales)
            profit_change == RatSub(new_weekly_profit, old_weekly_profit)
        IN Ok(VObj(
            ("scenario" :> VStr("decrease_price"))
            @@ ("item" :> Get(params, "item", VStr("unknown")))
            @@ ("change" :> VStr("-" \o FloatText(change_percent) \o "%"))
            @@ ("current_price" :> product_data.o["current_price"])
            @@ ("new_price" :> Round2(new_price))
            @@ ("current_weekly_profit" :> Round2(old_weekly_profit))
            @@ ("new_weekly_profit" :> Round2(new_weekly_profit))
            @@ ("profit_change" :> Round2(profit_change))
            @@ ("sales_impact" :> VStr(FloatText(impact_percent) \o "%"))
            @@ ("assumptions" :> VStr("Sales increase by "
                    \o FloatText(impact_percent - 100) \o "% with price decrease"))
            @@ ("recommendation" :>
                    VStr("Monitor profit margins and adjust strategy based on results"))))

\* _simulate_bulk_order(params, product_data)
simulate_bulk_order(params, product_data) ==
    LET change_str == Get(params, "change", VStr("0"))
        fault == ProductFault(product_data)
    IN  IF change_str.t # "str" THEN SimulationFailed("TypeError")
        ELSE IF fault # "" THEN SimulationFailed(fault)
        ELSE LET
            num_shops == FirstNumber(change_str.s)
            current_price == RatOf(product_data.o["current_price"])
            current_cost == RatOf(product_data.o["current_cost"])
            weekly_sales == RatOf(product_data.o["weekly_sales"])
            discount_percent == Min(20, (num_shops \div 5) * 5)
            bulk_price == RatMul(current_price, Rat(100 - discount_percent, 100))
            savings_per_unit == RatSub(current_price, bulk_price)
            total_savings == RatMul(savings_per_unit, weekly_sales)
            old_profit_per_unit == RatSub(current_price, current_cost)
            new_profit_per_unit == RatSub(bulk_price, current_cost)
            profit_impact == RatSub(new_profit_per_unit, old_profit_per_unit)
        IN Ok(VObj(
            ("scenario" :> VStr("bulk_order"))
            @@ ("item" :> Get(params, "item", VStr("unknown")))
            @@ ("num_shops" :> VNum(num_shops))
            @@ ("discount" :> VStr(NumText(discount_percent) \o "%"))
            @@ ("current_price" :> product_data.o["current_price"])
            @@ ("bulk_price" :> Round2(bulk_price))
            @@ ("savings_per_unit" :> Round2(savings_per_unit))
            @@ ("weekly_savings" :> Round2(total_savings))
            @@ ("profit_impact" :> Round2(profit_impact))
            @@ ("revenue" :> Round2(RatMul(bulk_price, weekly_sales)))
            @@ ("profit" :> Round2(RatMul(new_profit_per_unit, weekly_sales)))
            @@ ("assumptions" :> VStr("Bulk discount of " \o NumText(discount_percent)
                    \o "% for " \o NumText(num_shops) \o " shops"))
            @@ ("recommendation" :>
                    VStr("Consider forming buying groups for better supplier rates"))))

\* _simulate_unknown_scenario(params, product_data)
simulate_unknown_scenario(params, product_data) ==
    Ok(VObj(
        ("scenario" :> VStr("unknown"))
        @@ ("item" :> Get(params, "item", VStr("unknown")))
        @@ ("error" :> VStr("Unsupported simulation scenario"))
        @@ ("supported_scenarios" :>
                VList(<<VStr("increase_price"), VStr("decrease_price"), VStr("bulk_order")>>))
        @@ ("recommendation" :>
                VStr("Please rephrase your query using supported scenario types"))))

\* run_simulation(parsed_params) with self.sample_data = data
run_simulation(parsed_params, data) ==
    LET scenario == Get(parsed_params, "scenario", VStr("unknown"))
        item == Get(parsed_params, "item", VStr("unknown"))
    IN  IF item.t # "str" THEN Raise("AttributeError")
        ELSE LET product_data == Get(data, Lower(item.s), Get(data, "rice", None))
             IN IF PyEq(scenario, VStr("increase_price"))
                    THEN simulate_price_increase(parsed_params, product_data)
                ELSE IF PyEq(scenario, VStr("decrease_price"))
                    THEN simulate_price_decrease(parsed_params, product_data)
                ELSE IF PyEq(scenario, VStr("bulk_order"))
                    THEN simulate_bulk_order(parsed_params, product_data)
                ELSE simulate_unknown_scenario(parsed_params, product_data)

-----------------------------------------------------------------------------
(* The pipelines: process_receipt, simulate, route_request *)

Credentials == {"OPENAI_API_KEY", "GOOGLE_API_KEY"}

\* d.update(f)
Update(d, f) == VObj(f @@ d.o)

\* str(Path(...).stat().st_mtime): the model keeps one modification time
Timestamp == VStr("mtime")

\* a results file: whether it holds a JSON list, and the entries of the list
\* (a file that does not exist yet reads as the empty list)
EmptyFile == [valid |-> TRUE, entries |-> <<>>]

\* how the file system serves one _store_results: the load and the dump
\* succeed, the load or the open for writing fails, or the dump fails after
\* the file was opened for writing
StoreOutcomes == {"ok", "unreadable", "interrupted"}

\* _store_results: load the list, append the entry, dump the list; any
\* exception is logged and swallowed
store_results(file, entry, io) ==
    IF ~file.valid \/ io = "unreadable" THEN file
    ELSE IF io = "interrupted" THEN [valid |-> FALSE, entries |-> <<>>]
    ELSE [valid |-> TRUE, entries |-> Append(file.entries, entry)]

\* how the database serves one save: not asked (no user_id, or save_to_db
\* off), an id, no id, or an exception
DbOutcomes == {"skipped", "saved", "unsaved", "raises"}

\* the database step at the end of a pipeline
save_to_database(final_result, db, id_key) ==
    CASE db = "saved" -> Update(final_result, id_key :> VStr("id-1"))
      [] db = "raises" -> Update(final_result, "db_save_error" :> VStr("connection lost"))
      [] OTHER -> final_result

\* image files that exist and open as images
ImageFiles == {"bill.jpg"}

\* a pipeline call that ran no arbitration
NoArbitration == [called |-> FALSE, gpt |-> None, gemini |-> None, result |-> Pending]
Arbitration(gpt, gemini, result) ==
    [called |-> TRUE, gpt |-> gpt, gemini |-> gemini, result |-> result]

\* the metadata process_receipt adds to the arbitrated record
receipt_result(image_path, gpt_result, gemini_result, arbitrated_record) ==
    Update(arbitrated_record,
        ("image_path" :> VStr(image_path))
        @@ ("processing_timestamp" :> Timestamp)
        @@ ("gpt_success" :> VBool(gpt_result # None))
        @@ ("gemini_success" :> VBool(gemini_result # None)))

\* the entry _store_results appends to ocr_results.json
receipt_entry(image_path, gpt_result, gemini_result, final_result) ==
    VObj(
        ("image_path" :> VStr(image_path))
        @@ ("timestamp" :> Timestamp)
        @@ ("gpt_output" :> gpt_result)
        @@ ("gemini_output" :> gemini_result)
        @@ ("final_result" :> final_result))

\* process_receipt from the arbitration on: arb is what arbitrate_ocr did
receipt_from(image_path, gpt_result, gemini_result, db, io, file, arb) ==
    IF arb.raised
    THEN [returned |-> arb, file |-> file,
          arbitration |-> Arbitration(gpt_result, gemini_result, arb)]
    ELSE [returned |-> Ok(save_to_database(
                        receipt_result(image_path, gpt_result, gemini_result, arb.val),
                        db, "transaction_id")),
          file |-> store_results(file,
                        receipt_entry(image_path, gpt_result, gemini_result,
                            receipt_result(image_path, gpt_result, gemini_result, arb.val)),
                        io),
          arbitration |-> Arbitration(gpt_result, gemini_result, arb)]

\* process_receipt(image_path, user_id, save_to_db) when the two vision
\* backends yield gpt_result and gemini_result
process_receipt(image_path, gpt_result, gemini_result, db, io, file) ==
    IF image_path \notin ImageFiles
    THEN [returned |-> Raise("FileNotFoundError"), file |-> file,
          arbitration |-> NoArbitration]
    ELSE receipt_from(image_path, gpt_result, gemini_result, db, io, file,
                      arbitrate_ocr(gpt_result, gemini_result))

\* the literal result of simulate's offline path
offline_simulation(query) ==
    VObj(
        ("scenario" :> VStr(IF Contains(Lower(query), "increase")
                            THEN "increase_price" ELSE "price_change"))
        @@ ("item" :> VStr("rice"))
        @@ ("change" :> VStr("+5%"))
        @@ ("current_price" :> VFloat(1000))
        @@ ("new_price" :> VFloat(1050))
        @@ ("current_weekly_profit" :> VFloat(20000))
        @@ ("new_weekly_profit" :> VFloat(21000))
        @@ ("profit_change" :> VFloat(1000))
        @@ ("sales_impact" :> VStr("98.0%"))
        @@ ("assumptions" :> VStr("Offline deterministic path"))
        @@ ("recommendation" :> VStr("Monitor elasticity")))

simulation_entry(query, gpt_parsed, gemini_parsed, final_result) ==
    VObj(
        ("query" :> VStr(query))
        @@ ("timestamp" :> Timestamp)
        @@ ("gpt_parsing" :> gpt_parsed)
        @@ ("gemini_parsing" :> gemini_parsed)
        @@ ("final_result" :> final_result))

simulation_result(query, final_parsed, simulation) ==
    VObj(
        ("query" :> VStr(query))
        @@ ("parsed_parameters" :> final_parsed)
        @@ ("simulation_results" :> simulation)
        @@ ("timestamp" :> Timestamp))

\* mutant of sample_data_update: current_data is not merged into the table
sample_data_update_Ignored(data, current_data) == data

\* self.sample_data.update(current_data) if current_data
sample_data_update(data, current_data) ==
    IF Truthy(current_data) THEN Update(data, current_data.o) ELSE data

\* the final result of simulate's offline path
offline_result(query) ==
    simulation_result(query,
        VObj(("scenario" :> offline_simulation(query).o["scenario"])
             @@ ("item" :> offline_simulation(query).o["item"])
             @@ ("change" :> offline_simulation(query).o["change"])),
        offline_simulation(query))

\* simulate from the calculation on: arb is what arbitrate_parsing returned
\* and simulation what run_simulation did
simulation_from(query, gpt_parsed, gemini_parsed, db, io, data, file, arb, simulation) ==
    IF simulation.raised
    THEN [returned |-> simulation, data |-> data, file |-> file,
          arbitration |-> Arbitration(gpt_parsed, gemini_parsed, arb)]
    ELSE [returned |-> Ok(save_to_database(
                        simulation_result(query, arb.val, simulation.val),
                        db, "simulation_id")),
          data |-> data,
          file |-> store_results(file,
                        simulation_entry(query, gpt_parsed, gemini_parsed,
                            simulation_result(query, arb.val, simulation.val)),
                        io),
          arbitration |-> Arbitration(gpt_parsed, gemini_parsed, arb)]

\* simulate from the arbitration on: arb is what arbitrate_parsing did
parsing_from(query, gpt_parsed, gemini_parsed, db, io, data, file, arb) ==
    IF arb.raised
    THEN [returned |-> arb, data |-> data, file |-> file,
          arbitration |-> Arbitration(gpt_parsed, gemini_parsed, arb)]
    ELSE simulation_from(query, gpt_parsed, gemini_parsed, db, io, data, file, arb,
                         run_simulation(arb.val, data))

\* simulate after the update of the sample data
simulate_with(query, gpt_parsed, gemini_parsed, db, io, credentials, data, file) ==
    IF ~(Credentials \subseteq credentials)
    THEN [returned |-> Ok(offline_result(query)), data |-> data,
          file |-> store_results(file,
                        simulation_entry(query, None, None, offline_result(query)), io),
          arbitration |-> NoArbitration]
    ELSE parsing_from(query, gpt_parsed, gemini_parsed, db, io, data, file,
                      arbitrate_parsing(gpt_parsed, gemini_parsed))

\* simulate(query, current_data, user_id, save_to_db) with the credentials
\* of the environment, self.sample_data = data, and the two parsing backends
\* yielding gpt_parsed and gemini_parsed when they are called
simulate(query, current_data, gpt_parsed, gemini_parsed, db, io, credentials, data, file) ==
    simulate_with(query, gpt_parsed, gemini_parsed, db, io, credentials,
                  sample_data_update(data, current_data), file)

\* whether get_simulation_stats counts an entry of the log as successful:
\* not r.get("final_result", {}).get("error")
CountsAsSuccessful(entry) ==
    ~Truthy(Get(Get(entry, "final_result", EmptyDict), "error", None))

\* get_simulation_stats() on the results file; a file that does not exist
\* gives the two zeros, a file json.load rejects or an entry that is no
\* record the error record.  The rate is kept to the hundredth.
get_simulation_stats(file) ==
    IF ~file.valid THEN VObj("error" :> VStr("JSONDecodeError"))
    ELSE IF file.entries = <<>>
        THEN VObj(("total_simulations" :> VNum(0)) @@ ("success_rate" :> VNum(0)))
    ELSE IF \E i \in 1..Len(file.entries) :
                \/ ~IsDict(file.entries[i])
                \/ ~IsDict(Get(file.entries[i], "final_result", EmptyDict))
        THEN VObj("error" :> VStr("AttributeError"))
    ELSE LET total == Len(file.entries)
             successful ==
                Cardinality({i \in 1..total : CountsAsSuccessful(file.entries[i])})
         IN VObj(("total_simulations" :> VNum(total))
                 @@ ("successful_simulations" :> VNum(successful))
                 @@ ("success_rate" :>
                        VFloat(RoundDiv(successful * 100 * Scale, total))))

\* str.title() of the agent names route_request applies it to
Title(str) ==
    CASE str = "sales" -> "Sales"
      [] str = "financial" -> "Financial"
      [] str = "inventory" -> "Inventory"

\* the record route_request builds for a text input
text_route(intent, routed_to, final_classification, rest) ==
    VObj(
        ("input_type" :> VStr("text"))
        @@ ("intent" :> intent)
        @@ ("routed_to" :> VStr(routed_to))
        @@ ("classification" :> final_classification)
        @@ rest)

\* the record route_request builds for an image input
image_route(rest) ==
    VObj(
        ("input_type" :> VStr("image"))
        @@ ("intent" :> VStr("image_processing"))
        @@ ("routed_to" :> VStr("reality_capture_agent"))
        @@ rest)

\* route_request(user_input) for an image: pipeline is what process_receipt
\* did
route_image(pipeline) ==
    IF pipeline.returned.raised
    THEN image_route(("error" :> VStr(pipeline.returned.exc))
                     @@ ("status" :> VStr("failed")))
    ELSE image_route(("result" :> pipeline.returned.val)
                     @@ ("status" :> VStr("success")))

\* whether route_request dispatches the arbitrated classification to simulate
RoutesToSimulation(classified) ==
    ~classified.raised
        /\ PyEq(Get(classified.val, "requires_agent", VStr("none")), VStr("simulation"))

\* route_request(user_input) for a text, after arbitrate_classification
\* returned or raised classified: pipeline is what simulate did, if called
route_text(classified, pipeline) ==
    IF classified.raised THEN classified
    ELSE LET
        final_classification == classified.val
        intent == Get(final_classification, "intent", VStr("general"))
        routed_to == Get(final_classification, "requires_agent", VStr("none"))
    IN  IF PyEq(routed_to, VStr("simulation")) THEN
            IF pipeline.returned.raised
            THEN Ok(text_route(intent, "simulation_agent", final_classification,
                        ("error" :> VStr(pipeline.returned.exc))
                        @@ ("status" :> VStr("failed"))))
            ELSE Ok(text_route(intent, "simulation_agent", final_classification,
                        ("result" :> pipeline.returned.val)
                        @@ ("status" :> VStr("success"))))
        ELSE IF PyEq(routed_to, VStr("reality_capture")) THEN
            Ok(text_route(intent, "reality_capture_agent", final_classification,
                    ("message" :> VStr("Please provide an image for processing"))
                    @@ ("status" :> VStr("requires_image"))))
        ELSE IF \E agent \in {"sales", "financial", "inventory"} :
                    PyEq(routed_to, VStr(agent)) THEN
            Ok(text_route(intent, routed_to.s, final_classification,
                    ("message" :> VStr(Title(routed_to.s) \o " agent not yet implemented"))
                    @@ ("status" :> VStr("not_implemented"))))
        ELSE
            Ok(text_route(intent, "general", final_classification,
                    ("message" :> VStr("General business query received"))
                    @@ ("status" :> VStr("success"))))

-----------------------------------------------------------------------------
(* What the pipelines are called with *)

\* _load_sample_data()
SampleData ==
    LET product(price, cost, sales, margin, unit) ==
            VObj(("current_price" :> VFloat(price * Scale))
                 @@ ("current_cost" :> VFloat(cost * Scale))
                 @@ ("weekly_sales" :> VNum(sales))
                 @@ ("profit_margin" :> VFloat(margin))
                 @@ ("unit" :> VStr(unit)))
    IN VObj(("rice" :> product(50, 35, 100, 30, "kg"))
            @@ ("sugar" :> product(40, 28, 80, 30, "kg"))
            @@ ("wheat" :> product(45, 32, 120, 29, "kg"))
            @@ ("oil" :> product(120, 85, 50, 29, "liter"))
            @@ ("pulses" :> product(80, 55, 60, 31, "kg")))

\* the current_data argument of simulate: none, or a new record for rice
CurrentData ==
    {None,
     VObj("rice" :> VObj(("current_price" :> VFloat(60 * Scale))
                         @@ ("current_cost" :> VFloat(35 * Scale))
                         @@ ("weekly_sales" :> VNum(100))))}

Queries ==
    {"What if I increase rice price by 5%?",
     "Should I order sugar together with 10 shops?"}

ImagePaths == ImageFiles \cup {"gone.jpg"}
RouterInputs == ImageFiles \cup Queries

\* except Exception: return None
OutcomeOrNone(result) == IF result.raised THEN None ELSE result.val

\* what a backend method returns for a reply text: the reply stripped and
\* recovered, None if that raises
BackendOutcome(reply) == OutcomeOrNone(parse_json_response(Strip(reply)))

ReceiptA == MkObj([items |-> VList(<<Rice>>), total |-> VNum(1)])
ReceiptB == MkObj([items |-> VList(<<Sugar>>), total |-> VNum(2), source |-> VStr("scan")])
ReceiptC == MkObj([items |-> VList(<<Rice, Sugar>>), total |-> VNum(2)])

OcrReplies ==
    {Wrap(toJsonText(ReceiptA, Indented), "fenced"),
     toJsonText(ReceiptB, Spaced),
     Wrap(toJsonText(ReceiptC, Compact), "fenced_padded"),
     "{\"items\": null, \"total\": 1}",
     "{}",
     "I cannot read this image."}

ClassificationReplies ==
    {Wrap(toJsonText(MkObj([intent |-> VStr("simulation_query"),
                            confidence |-> VStr("high"),
                            requires_agent |-> VStr("simulation")]), Indented), "fenced"),
     toJsonText(MkObj([intent |-> VStr("sales_log"),
                       confidence |-> VStr("medium"),
                       requires_agent |-> VStr("sales"),
                       classification_source |-> VStr("llm")]), Spaced),
     toJsonText(MkObj([intent |-> VStr("image_processing"),
                       requires_agent |-> VStr("reality_capture")]), Compact),
     "[1]",
     "This looks like a what-if question."}

ParsingReplies ==
    {Wrap(toJsonText(MkObj([scenario |-> VStr("increase_price"),
                            item |-> VStr("Rice"),
                            change |-> VStr("+5%")]), Indented), "fenced"),
     toJsonText(MkObj([scenario |-> VStr("bulk_order"),
                       item |-> VStr("sugar"),
                       change |-> VStr("10 shops"),
                       parsing_source |-> VStr("llm")]), Spaced),
     toJsonText(MkObj([scenario |-> VStr("decrease_price"),
                       item |-> VStr("oil"),
                       change |-> VStr("-10%")]), Compact),
     "{\"scenario\": \"increase_price\", \"item\": null}",
     "[1]",
     "Raise the price of rice by five percent."}

\* what a backend method can return: None when the call raised, else the
\* outcome of one of the replies
OcrBackendOutcomes == {None} \cup {BackendOutcome(reply) : reply \in OcrReplies}
ClassificationBackendOutcomes ==
    {None} \cup {BackendOutcome(reply) : reply \in ClassificationReplies}
ParsingBackendOutcomes == {None} \cup {BackendOutcome(reply) : reply \in ParsingReplies}

-----------------------------------------------------------------------------
(* State machine *)

\* no reply has been recovered
IdleRecovery == content = "" /\ recovered = Pending

\* no arbitration has been called
IdleArbitration ==
    /\ gpt_output = None /\ gemini_output = None /\ arbitrated = Pending
    /\ result_object = "arbitrated"

\* the arguments of a pipeline call: the input (image path, query or user
\* input), current_data, and how the database serves the save that user_id
\* and save_to_db ask for
Request(input, current_data, db) ==
    [input |-> input, current_data |-> current_data, db |-> db]

\* no pipeline call has been made
NoRequest == Request("", None, "skipped")

\* the requests that can be served at overlapping times
Requests == {1, 2}

\* no request is storing results
IdleLog ==
    /\ pc = [r \in Requests |-> "idle"]
    /\ all_results = [r \in Requests |-> [log |-> "", entries |-> <<>>]]

\* the agents as constructed: sample data loaded, no results stored, no
\* pipeline called
IdlePipelines ==
    /\ IdleLog
    /\ environ \in SUBSET Credentials
    /\ sample_data = SampleData
    /\ ocr_results = EmptyFile
    /\ simulation_results = EmptyFile
    /\ request = NoRequest
    /\ returned = Pending

OutcomePairs ==
    (OcrOutcomes \X OcrOutcomes)
        \cup (ClassificationOutcomes \X ClassificationOutcomes)
        \cup (ParsingOutcomes \X ParsingOutcomes)

\* two backend outcomes are in hand and no arbitration has run
InitArbitration ==
    /\ op = "init"
    /\ \E pair \in OutcomePairs :
            gpt_output = pair[1] /\ gemini_output = pair[2]
    /\ arbitrated = Pending
    /\ result_object = "arbitrated"
    /\ IdleRecovery
    /\ IdlePipelines /\ environ = Credentials

\* a call of arbitrate_ocr(gpt_output, gemini_output)
ArbitrateOcr ==
    /\ op = "init"
    /\ gpt_output \in OcrOutcomes /\ gemini_output \in OcrOutcomes
    /\ op' = "arbitrate_ocr"
    /\ arbitrated' = arbitrate_ocr(gpt_output, gemini_output)
    /\ UNCHANGED <<gpt_output, gemini_output, result_object,
                   recovery_vars, pipeline_vars, log_vars>>

\* a call of arbitrate_classification(gpt_output, gemini_output)
ArbitrateClassification ==
    /\ op = "init"
    /\ gpt_output \in ClassificationOutcomes /\ gemini_output \in ClassificationOutcomes
    /\ op' = "arbitrate_classification"
    /\ arbitrated' = arbitrate_classification(gpt_output, gemini_output)
    /\ UNCHANGED <<gpt_output, gemini_output, result_object,
                   recovery_vars, pipeline_vars, log_vars>>

\* a call of arbitrate_parsing(gpt_output, gemini_output)
ArbitrateParsing ==
    /\ op = "init"
    /\ gpt_output \in ParsingOutcomes /\ gemini_output \in ParsingOutcomes
    /\ op' = "arbitrate_parsing"
    /\ arbitrated' = arbitrate_parsing(gpt_output, gemini_output)
    /\ UNCHANGED <<gpt_output, gemini_output, result_object,
                   recovery_vars, pipeline_vars, log_vars>>

NextArbitration == ArbitrateOcr \/ ArbitrateClassification \/ ArbitrateParsing

\* the arbitrations called directly, on every pair of outcomes
SpecArbitration == InitArbitration /\ [][NextArbitration]_vars

\* a backend has replied and the reply has not been recovered
InitRecovery ==
    /\ op = "init"
    /\ content \in ReplyTexts
    /\ recovered = Pending
    /\ IdleArbitration
    /\ IdlePipelines /\ environ = Credentials

\* a call of _parse_json_response(content)
ParseJsonResponse ==
    /\ op = "init"
    /\ Decodable(content)
    /\ op' = "parse_json_response"
    /\ recovered' = parse_json_response(content)
    /\ UNCHANGED <<content, arbitration_vars, pipeline_vars, log_vars>>

NextRecovery == ParseJsonResponse

\* response recovery called directly, on every reply text
SpecRecovery == InitRecovery /\ [][NextRecovery]_vars

\* words the fallbacks look for, in mixed case, and words they do not
Words ==
    {"", "image", "Photo", "RECEIPT", "bill", "what if", "Simulate", "if",
     "sales", "Transaction", "log", "profit", "Expense", "money", "FINANCIAL",
     "stock", "inventory", "Product", "increase", "Decrease", "price", "BULK",
     "together", "hello"}

\* texts handed to a keyword fallback: the texts of the tests, texts that
\* hold a keyword inside another word, and every two words
KeywordTexts ==
    {"Process this receipt image", "Good morning!",
     "What if I increase rice price by 5%?", "increase rice price by 5%",
     "decrease sugar price by 10%", "bulk buy together", "hello world",
     "Please notify me", "a catalog of billions", "Increase the PRICE, decrease the price",
     "prices", "increase decrease"}
        \cup {a \o " " \o b : a, b \in Words}

\* a text is in hand and no fallback has run
InitKeywords ==
    /\ op = "init"
    /\ content \in KeywordTexts
    /\ recovered = Pending
    /\ IdleArbitration
    /\ IdlePipelines /\ environ = Credentials

\* a call of _fallback_classification(content)
FallbackClassification ==
    /\ op = "init"
    /\ op' = "fallback_classification"
    /\ returned' = Ok(fallback_classification(content))
    /\ UNCHANGED <<content, recovered, arbitration_vars, request, log_vars,
                   environ, sample_data, ocr_results, simulation_results>>

\* a call of _fallback_parsing(content)
FallbackParsing ==
    /\ op = "init"
    /\ op' = "fallback_parsing"
    /\ returned' = Ok(fallback_parsing(content))
    /\ UNCHANGED <<content, recovered, arbitration_vars, request, log_vars,
                   environ, sample_data, ocr_results, simulation_results>>

NextKeywords == FallbackClassification \/ FallbackParsing

\* the keyword fallbacks called directly, on every text
SpecKeywords == InitKeywords /\ [][NextKeywords]_vars

\* a results file whose dump was interrupted
BrokenFile == [valid |-> FALSE, entries |-> <<>>]

\* what earlier calls can have left behind: a results file is absent, holds
\* the entry of an earlier call, or is broken; the sample data are as
\* loaded, or as an earlier simulate with current_data updated them
OcrFiles ==
    {EmptyFile, BrokenFile,
     process_receipt("bill.jpg", ReceiptA, None, "skipped", "ok", EmptyFile).file}
SimulationFiles ==
    {EmptyFile, BrokenFile,
     store_results(EmptyFile,
        simulation_entry("What if I increase rice price by 5%?", None, None,
            offline_result("What if I increase rice price by 5%?")), "ok")}
SampleDataStates ==
    {sample_data_update(SampleData, current_data) : current_data \in CurrentData}

\* the agents are constructed, earlier calls may have run, and the next
\* pipeline call is about to be made
Init ==
    /\ op = "init"
    /\ IdleArbitration
    /\ IdleRecovery
    /\ environ \in SUBSET Credentials
    /\ sample_data \in SampleDataStates
    /\ ocr_results \in OcrFiles
    /\ simulation_results \in SimulationFiles
    /\ request = NoRequest
    /\ returned = Pending
    /\ IdleLog

\* what the backend of a credential can return: any of its outcomes with
\* the credential, None (the call raised) without
OutcomesWith(credential, outcomes) ==
    IF credential \in environ THEN outcomes ELSE {None}

\* the last arbitration call is the one the pipeline made, if it made one
Record(arbitration) ==
    IF arbitration.called
    THEN /\ gpt_output' = arbitration.gpt
         /\ gemini_output' = arbitration.gemini
         /\ arbitrated' = arbitration.result
         /\ UNCHANGED result_object
    ELSE UNCHANGED arbitration_vars

\* a call of process_receipt(image_path, user_id, save_to_db)
ProcessReceipt ==
    /\ op = "init"
    /\ \E image_path \in ImagePaths, db \in DbOutcomes, io \in StoreOutcomes,
          gpt_result \in OutcomesWith("OPENAI_API_KEY", OcrBackendOutcomes),
          gemini_result \in OutcomesWith("GOOGLE_API_KEY", OcrBackendOutcomes) :
          \E call \in {process_receipt(image_path, gpt_result, gemini_result,
                                    db, io, ocr_results)} :
                /\ op' = "process_receipt"
                /\ request' = Request(image_path, None, db)
                /\ returned' = call.returned
                /\ ocr_results' = call.file
                /\ Record(call.arbitration)
    /\ UNCHANGED <<environ, sample_data, simulation_results, recovery_vars, log_vars>>

\* a call of simulate(query, current_data, user_id, save_to_db)
Simulate ==
    /\ op = "init"
    /\ \E query \in Queries, current_data \in CurrentData,
          db \in DbOutcomes, io \in StoreOutcomes,
          gpt_parsed \in OutcomesWith("OPENAI_API_KEY", ParsingBackendOutcomes),
          gemini_parsed \in OutcomesWith("GOOGLE_API_KEY", ParsingBackendOutcomes) :
          \E call \in {simulate(query, current_data, gpt_parsed, gemini_parsed,
                             db, io, environ, sample_data, simulation_results)} :
                /\ op' = "simulate"
                /\ request' = Request(query, current_data, db)
                /\ returned' = call.returned
                /\ sample_data' = call.data
                /\ simulation_results' = call.file
                /\ Record(call.arbitration)
    /\ UNCHANGED <<environ, ocr_results, recovery_vars, log_vars>>

\* route_request(user_input) for an image
RouteImage(user_input, io) ==
    \E gpt_result \in OutcomesWith("OPENAI_API_KEY", OcrBackendOutcomes),
       gemini_result \in OutcomesWith("GOOGLE_API_KEY", OcrBackendOutcomes) :
       \E pipeline \in {process_receipt(user_input, gpt_result, gemini_result,
                                     "skipped", io, ocr_results)} :
            /\ returned' = Ok(route_image(pipeline))
            /\ ocr_results' = pipeline.file
            /\ Record(pipeline.arbitration)
            /\ UNCHANGED <<sample_data, simulation_results>>

\* route_request(user_input) for a text
RouteText(user_input, io) ==
    \E gpt_classification \in
            OutcomesWith("OPENAI_API_KEY", ClassificationBackendOutcomes),
       gemini_classification \in
            OutcomesWith("GOOGLE_API_KEY", ClassificationBackendOutcomes) :
      \E classified \in {arbitrate_classification(gpt_classification,
                                                  gemini_classification)} :
        LET classification ==
                Arbitration(gpt_classification, gemini_classification, classified)
        IN  IF RoutesToSimulation(classified)
            THEN \E gpt_parsed \in OutcomesWith("OPENAI_API_KEY", ParsingBackendOutcomes),
                    gemini_parsed \in OutcomesWith("GOOGLE_API_KEY", ParsingBackendOutcomes) :
                    \E pipeline \in {simulate(user_input, None, gpt_parsed, gemini_parsed,
                                           "skipped", io, environ, sample_data,
                                           simulation_results)} :
                        /\ returned' = route_text(classified, pipeline)
                        /\ sample_data' = pipeline.data
                        /\ simulation_results' = pipeline.file
                        /\ Record(IF pipeline.arbitration.called
                                  THEN pipeline.arbitration ELSE classification)
                        /\ UNCHANGED ocr_results
            ELSE /\ returned' = route_text(classified, [returned |-> Pending])
                 /\ Record(classification)
                 /\ UNCHANGED <<sample_data, ocr_results, simulation_results>>

\* a call of route_request(user_input)
RouteRequest ==
    /\ op = "init"
    /\ \E user_input \in RouterInputs, io \in StoreOutcomes :
            /\ request' = Request(user_input, None, "skipped")
            /\ IF user_input \in ImageFiles
               THEN RouteImage(user_input, io)
               ELSE RouteText(user_input, io)
    /\ op' = "route_request"
    /\ UNCHANGED <<environ, recovery_vars, log_vars>>

Next == ProcessReceipt \/ Simulate \/ RouteRequest

\* one pipeline call, from every state earlier calls can have left
Spec == Init /\ [][Next]_vars

\* the largest number of shops and the largest percentage of the change
\* texts the calculations are run on
MaxShops == 30
MaxPercent == 30

\* the change field of a parse: a percentage, a number of shops, or a text
\* the backend made up
ChangeTexts ==
    {"+" \o NumText(pct) \o "%" : pct \in 0..MaxPercent}
        \cup {NumText(n) \o " shops" : n \in 0..MaxShops}
        \cup {"5", "+10", "-5%", "+100%", "27", "007", "with 4 shops",
              "12 of 40 shops", "shops", "", "five percent"}

\* a parse with a scenario and an item, and with change unless it is "absent"
parsed(scenario, item, change) ==
    VObj(("scenario" :> VStr(scenario)) @@ ("item" :> VStr(item))
         @@ (IF change = "absent" THEN <<>> ELSE "change" :> VStr(change)))

\* parses without a scenario or an item, or with one that is no text
OddParses ==
    {VObj("item" :> VStr("rice")),
     VObj(("item" :> VStr("rice")) @@ ("change" :> VStr("+5%"))),
     VObj(("scenario" :> VStr("unknown")) @@ ("item" :> VStr("unknown"))),
     VObj(("scenario" :> None) @@ ("item" :> VStr("rice")) @@ ("change" :> VStr("+5%"))),
     VObj(("scenario" :> VNum(1)) @@ ("item" :> VStr("rice")) @@ ("change" :> VStr("+5%"))),
     VObj(("scenario" :> VStr("Increase_Price")) @@ ("item" :> VStr("rice"))
          @@ ("change" :> VStr("+5%"))),
     VObj(("scenario" :> VStr("bulk_order")) @@ ("change" :> VStr("10 shops"))),
     VObj(("scenario" :> VStr("increase_price")) @@ ("item" :> None)
          @@ ("change" :> VStr("+5%"))),
     VObj(("scenario" :> VStr("discount")) @@ ("item" :> None)),
     VObj(("scenario" :> VStr("discount")) @@ ("item" :> VNum(5)))}

ParsedParams ==
    {parsed(scenario, item, change) :
        scenario \in {"increase_price", "decrease_price", "bulk_order", "discount"},
        item \in {"rice", "Sugar", "tea", "salt"},
        change \in ChangeTexts \cup {"absent"}}
        \cup OddParses

\* a product priced to the cent
Tea ==
    VObj(("current_price" :> VFloat(3004))
         @@ ("current_cost" :> VFloat(2100))
         @@ ("weekly_sales" :> VNum(10)))

\* the sample data as loaded, or as a simulate with current_data left them
CalculationData == SampleDataStates \cup {Update(SampleData, "tea" :> Tea)}

\* simulate has arbitrated a parse and is about to run the calculation
InitCalculation ==
    /\ op = "init"
    /\ gpt_output = None
    /\ gemini_output = None
    /\ arbitrated \in {Ok(parsed_params) : parsed_params \in ParsedParams}
    /\ result_object = "arbitrated"
    /\ IdleRecovery
    /\ environ = Credentials
    /\ sample_data \in CalculationData
    /\ ocr_results = EmptyFile
    /\ simulation_results = EmptyFile
    /\ request = NoRequest
    /\ returned = Pending
    /\ IdleLog

\* a call of run_simulation(parsed_params) on the arbitrated parse
RunSimulation ==
    /\ op = "init"
    /\ op' = "run_simulation"
    /\ returned' = run_simulation(arbitrated.val, sample_data)
    /\ UNCHANGED <<arbitration_vars, recovery_vars, environ, sample_data,
                   ocr_results, simulation_results, request, log_vars>>

NextCalculation == RunSimulation

\* one calculation, on every parse and every state of the sample data
SpecCalculation == InitCalculation /\ [][NextCalculation]_vars

\* the result simulate stores for a query and an arbitrated parse
stored_simulation(query, parse) ==
    simulation_entry(query, parse, parse,
        simulation_result(query, arbitrate_parsing(parse, parse).val,
            run_simulation(arbitrate_parsing(parse, parse).val, SampleData).val))

\* the entries a request can store: request 1 serves the rice query and a
\* receipt read by one backend, request 2 the sugar query and a receipt read
\* by the other; a simulation can end in an error record
NewEntries(pipeline, r) ==
    IF pipeline = "simulate"
    THEN IF r = 1
         THEN {stored_simulation("What if I increase rice price by 5%?",
                    parsed("increase_price", "rice", "+5%")),
               stored_simulation("What if I increase rice price by 5%?",
                    parsed("discount", "rice", "+5%"))}
         ELSE {stored_simulation("Should I order sugar together with 10 shops?",
                    parsed("bulk_order", "sugar", "10 shops")),
               stored_simulation("Should I order sugar together with 10 shops?",
                    parsed("increase_price", "sugar", "10 shops"))}
    ELSE IF r = 1
         THEN {receipt_entry("bill.jpg", ReceiptA, None,
                    receipt_result("bill.jpg", ReceiptA, None,
                                   arbitrate_ocr(ReceiptA, None).val))}
         ELSE {receipt_entry("bill.jpg", None, ReceiptB,
                    receipt_result("bill.jpg", None, ReceiptB,
                                   arbitrate_ocr(None, ReceiptB).val))}

\* the mock_results of test_simulation_stats, and an entry whose final
\* result is an error record
MockClean ==
    VObj(("query" :> VStr("test1"))
         @@ ("final_result" :>
                VObj("simulation_results" :> VObj("scenario" :> VStr("increase_price")))))
MockErrored ==
    VObj(("query" :> VStr("test2"))
         @@ ("final_result" :>
                VObj("simulation_results" :> VObj("error" :> VStr("failed")))))
MockFailed ==
    VObj(("query" :> VStr("test3"))
         @@ ("final_result" :> VObj("error" :> VStr("failed"))))

\* the simulation log before the requests: absent, broken, written by
\* earlier calls, or written by hand
SimulationLogs ==
    SimulationFiles
        \cup {[valid |-> TRUE, entries |-> entries] :
                entries \in {<<MockClean, MockErrored>>, <<MockErrored>>,
                             <<MockClean, MockFailed>>,
                             <<VStr("note")>>}}

InitLog ==
    /\ op = "init"
    /\ IdleArbitration
    /\ IdleRecovery
    /\ environ = Credentials
    /\ sample_data = SampleData
    /\ ocr_results \in OcrFiles
    /\ simulation_results \in SimulationLogs
    /\ request = NoRequest
    /\ returned = Pending
    /\ IdleLog

\* the results file of a pipeline
LogOf(pipeline) ==
    IF pipeline = "simulate" THEN simulation_results ELSE ocr_results

\* request r, at the end of a pipeline call, enters _store_results: it loads
\* the list of the file and appends its entry to it; an exception ends the
\* method
LoadResults(r) ==
    /\ pc[r] = "idle"
    /\ \E pipeline \in {"process_receipt", "simulate"}, io \in {"ok", "unreadable"} :
        \E entry \in NewEntries(pipeline, r) :
            IF ~LogOf(pipeline).valid \/ io = "unreadable"
            THEN /\ pc' = [pc EXCEPT ![r] = "failed"]
                 /\ UNCHANGED all_results
            ELSE /\ pc' = [pc EXCEPT ![r] = "loaded"]
                 /\ all_results' =
                        [all_results EXCEPT ![r] =
                            [log |-> pipeline,
                             entries |-> Append(LogOf(pipeline).entries, entry)]]
    /\ op' = "store_results"
    /\ UNCHANGED <<arbitration_vars, recovery_vars, pipeline_vars>>

\* request r dumps its list to the file, which the open for writing
\* truncated; an interrupted dump leaves a file that is no JSON
DumpResults(r) ==
    /\ pc[r] = "loaded"
    /\ \E io \in {"ok", "interrupted"} :
        \E file \in {IF io = "ok"
                     THEN [valid |-> TRUE, entries |-> all_results[r].entries]
                     ELSE [valid |-> FALSE, entries |-> <<>>]} :
            /\ pc' = [pc EXCEPT ![r] = IF io = "ok" THEN "stored" ELSE "failed"]
            /\ IF all_results[r].log = "simulate"
               THEN simulation_results' = file /\ UNCHANGED ocr_results
               ELSE ocr_results' = file /\ UNCHANGED simulation_results
    /\ op' = "store_results"
    /\ UNCHANGED <<arbitration_vars, recovery_vars, environ, sample_data,
                   request, returned, all_results>>

\* a call of get_simulation_stats()
GetSimulationStats ==
    /\ op' = "get_simulation_stats"
    /\ returned' = Ok(get_simulation_stats(simulation_results))
    /\ UNCHANGED <<arbitration_vars, recovery_vars, environ, sample_data,
                   ocr_results, simulation_results, request, log_vars>>

NextLog ==
    \/ \E r \in Requests : LoadResults(r)
    \/ \E r \in Requests : DumpResults(r)
    \/ GetSimulationStats

\* two requests store their results, at overlapping times or one after
\* the other, and the statistics are read
SpecLog == InitLog /\ [][NextLog]_vars

-----------------------------------------------------------------------------
(* Vocabulary of the properties *)

ArbitrationOps == {"arbitrate_ocr", "arbitrate_classification", "arbitrate_parsing"}

\* the key each arbitration writes its provenance tag under
TagKeyOf(o) ==
    CASE o = "arbitrate_ocr" -> "source"
      [] o = "arbitrate_classification" -> "classification_source"
      [] o = "arbitrate_parsing" -> "parsing_source"

\* a record: a mapping; present: a record that is not empty
IsRecord(v) == v.t = "obj"
Present(v) == v.t = "obj" /\ DOMAIN v.o # {}

Without(f, key) == [k \in DOMAIN f \ {key} |-> f[k]]

\* res is a returned record carrying tag under key
Tagged(res, key, tag) ==
    /\ ~res.raised
    /\ IsRecord(res.val)
    /\ key \in DOMAIN res.val.o
    /\ res.val.o[key] = VStr(tag)

\* res is the record rec plus tag under key: rec's other fields unchanged
IsPlusTag(res, rec, key, tag) ==
    /\ Tagged(res, key, tag)
    /\ DOMAIN res.val.o = DOMAIN rec.o \cup {key}
    /\ \A k \in DOMAIN rec.o \ {key} : res.val.o[k] = rec.o[k]

Arbitrated == op \in ArbitrationOps

-----------------------------------------------------------------------------
(* Properties of the arbitrations, under SpecArbitration *)

\* C1: in each of the three arbitrations, two records that are deep-equal
\* give the first record plus the tag gpt+gemini_agree.
C1_AgreeIsPrimaryPlusTag ==
    (/\ Arbitrated
     /\ IsRecord(gpt_output) /\ IsRecord(gemini_output)
     /\ PyEq(gpt_output, gemini_output))
    => IsPlusTag(arbitrated, gpt_output, TagKeyOf(op), AGREE)

\* C1 witness: an OCR arbitration of two equal non-empty receipts that
\* already carried a "source" key, answered with the agree tag.
C1_Witness ==
    /\ op = "arbitrate_ocr"
    /\ Present(gpt_output) /\ PyEq(gpt_output, gemini_output)
    /\ "source" \in DOMAIN gpt_output.o
    /\ "items" \in DOMAIN gpt_output.o
    /\ Tagged(arbitrated, "source", AGREE)

\* C2 as stated: with one record present and the other outcome None, the
\* tag is gpt_only / gemini_only and the result without the tag key is the
\* present record itself.
C2_OnlyOneMinusTagIsRecord ==
    /\ (Arbitrated /\ Present(gpt_output) /\ gemini_output = None)
        => /\ Tagged(arbitrated, TagKeyOf(op), GPT_ONLY)
           /\ Without(arbitrated.val.o, TagKeyOf(op)) = gpt_output.o
    /\ (Arbitrated /\ Present(gemini_output) /\ gpt_output = None)
        => /\ Tagged(arbitrated, TagKeyOf(op), GEMINI_ONLY)
           /\ Without(arbitrated.val.o, TagKeyOf(op)) = gemini_output.o

\* C2 amended: with one record present and the other outcome None, the tag
\* is gpt_only / gemini_only and the result agrees with the present record
\* on every key but the tag key, which it overrides.
C2_OnlyOneIsRecordPlusTag ==
    /\ (Arbitrated /\ Present(gpt_output) /\ gemini_output = None)
        => /\ IsPlusTag(arbitrated, gpt_output, TagKeyOf(op), GPT_ONLY)
           /\ Without(arbitrated.val.o, TagKeyOf(op))
                = Without(gpt_output.o, TagKeyOf(op))
    /\ (Arbitrated /\ Present(gemini_output) /\ gpt_output = None)
        => /\ IsPlusTag(arbitrated, gemini_output, TagKeyOf(op), GEMINI_ONLY)
           /\ Without(arbitrated.val.o, TagKeyOf(op))
                = Without(gemini_output.o, TagKeyOf(op))

\* C2 witness: a parse arbitration with only the secondary present, whose
\* record had its own parsing_source, overridden by gemini_only.
C2_Witness ==
    /\ op = "arbitrate_parsing"
    /\ gpt_output = None /\ Present(gemini_output)
    /\ "parsing_source" \in DOMAIN gemini_output.o
    /\ gemini_output.o["parsing_source"] # VStr(GEMINI_ONLY)
    /\ Tagged(arbitrated, "parsing_source", GEMINI_ONLY)

\* C3: with both outcomes None no arbitration returns None:
\* arbitrate_classification and arbitrate_parsing return a record tagged
\* fallback, arbitrate_ocr the record with no items, total 0, an error
\* string and the tag both_failed.
C3_BothAbsentGivesRecord ==
    (Arbitrated /\ gpt_output = None /\ gemini_output = None)
    => /\ ~arbitrated.raised
       /\ arbitrated.val # None
       /\ op \in {"arbitrate_classification", "arbitrate_parsing"}
            => Tagged(arbitrated, TagKeyOf(op), FALLBACK)
       /\ op = "arbitrate_ocr"
            => /\ Tagged(arbitrated, "source", BOTH_FAILED)
               /\ DOMAIN arbitrated.val.o = {"items", "total", "source", "error"}
               /\ arbitrated.val.o["items"] = VList(<<>>)
               /\ arbitrated.val.o["total"] = VNum(0)
               /\ arbitrated.val.o["error"].t = "str"
               /\ arbitrated.val.o["error"].s # ""

\* C3 witness: arbitrate_ocr has run on (None, None) and answered both_failed.
C3_Witness ==
    /\ op = "arbitrate_ocr"
    /\ gpt_output = None /\ gemini_output = None
    /\ Tagged(arbitrated, "source", BOTH_FAILED)

\* the items and the total arbitrate_ocr reads from a receipt
ItemsOf(rec) == IF "items" \in DOMAIN rec.o THEN rec.o["items"] ELSE VList(<<>>)
TotalOf(rec) == IF "total" \in DOMAIN rec.o THEN rec.o["total"] ELSE VNum(0)

\* two receipts that are present, differ, list their items and total in numbers
TypedReceipts ==
    /\ op = "arbitrate_ocr"
    /\ Present(gpt_output) /\ Present(gemini_output)
    /\ ~PyEq(gpt_output, gemini_output)
    /\ ItemsOf(gpt_output).t = "list" /\ ItemsOf(gemini_output).t = "list"

NumericTotals == IsNumeric(TotalOf(gpt_output)) /\ IsNumeric(TotalOf(gemini_output))

In(item, seq) == \E i \in 1..Len(seq) : PyEq(item, seq[i])

\* the positions of the secondary's items that are new: in neither the
\* primary's list nor earlier in the secondary's
FreshAt(primary, secondary) ==
    {i \in 1..Len(secondary) :
        /\ ~In(secondary[i], primary)
        /\ \A j \in 1..(i - 1) : ~PyEq(secondary[i], secondary[j])}

Nth(S, n) == CHOOSE i \in S : Cardinality({j \in S : j < i}) = n - 1

C5_MoreItemsWinsOutright ==
    TypedReceipts
    => LET ng == Len(ItemsOf(gpt_output).l)
           nm == Len(ItemsOf(gemini_output).l)
       IN /\ ng > nm
                => /\ IsPlusTag(arbitrated, gpt_output, "source", GPT_PREFERRED)
                   /\ arbitrated.val.o["items"] = gpt_output.o["items"]
          /\ nm > ng
                => /\ IsPlusTag(arbitrated, gemini_output, "source", GEMINI_PREFERRED)
                   /\ arbitrated.val.o["items"] = gemini_output.o["items"]
          /\ Tagged(arbitrated, "source", MERGED) => ng = nm

\* C5 witness: the secondary has two items, the primary one and more
\* top-level keys, and the secondary is returned as gemini_preferred.
C5_Witness ==
    /\ TypedReceipts
    /\ Len(ItemsOf(gpt_output).l) = 1 /\ Len(ItemsOf(gemini_output).l) = 2
    /\ Cardinality(DOMAIN gpt_output.o) > Cardinality(DOMAIN gemini_output.o)
    /\ Tagged(arbitrated, "source", GEMINI_PREFERRED)

\* the confidence rank: high 3, medium 2, low 1, anything else or none 1
RankOf(rec) ==
    IF "confidence" \notin DOMAIN rec.o THEN 1
    ELSE IF rec.o["confidence"] = VStr("high") THEN 3
    ELSE IF rec.o["confidence"] = VStr("medium") THEN 2
    ELSE 1

ScalarConfidence(rec) ==
    "confidence" \in DOMAIN rec.o => rec.o["confidence"].t \notin {"list", "obj"}

C7_MoreFieldsWins ==
    (/\ op = "arbitrate_parsing"
     /\ Present(gpt_output) /\ Present(gemini_output)
     /\ ~PyEq(gpt_output, gemini_output))
    => IF Cardinality(DOMAIN gpt_output.o) >= Cardinality(DOMAIN gemini_output.o)
        THEN IsPlusTag(arbitrated, gpt_output, "parsing_source", GPT_PREFERRED)
        ELSE IsPlusTag(arbitrated, gemini_output, "parsing_source", GEMINI_PREFERRED)

\* C7 witness: two different records with three fields each: the primary
\* is returned.
C7_Witness ==
    /\ op = "arbitrate_parsing"
    /\ Present(gpt_output) /\ Present(gemini_output)
    /\ ~PyEq(gpt_output, gemini_output)
    /\ Cardinality(DOMAIN gpt_output.o) = 3
    /\ Cardinality(DOMAIN gemini_output.o) = 3
    /\ Tagged(arbitrated, "parsing_source", GPT_PREFERRED)

\* C8 as stated: whatever two outcomes (None or a record, with fields of
\* any JSON type) an arbitration is given, it returns a record and raises
\* nothing.
C8_ArbitrationNeverRaises ==
    (/\ Arbitrated
     /\ gpt_output = None \/ IsRecord(gpt_output)
     /\ gemini_output = None \/ IsRecord(gemini_output))
    => ~arbitrated.raised /\ IsRecord(arbitrated.val)

-----------------------------------------------------------------------------
(* Properties of response recovery, under SpecRecovery *)

Recovered == op = "parse_json_response"

\* C10 For every well-formed record R, _parse_json_response applied to the
\* JSON text of R returns R, and so does it applied to that text inside a
\* json-labelled fence, with or without whitespace around the fence.
C10_RecoveryRoundTrips ==
    Recovered =>
        \A p \in Renderings : content = p.text => recovered = Ok(p.record)

\* a fenced, padded rendering of a receipt has been recovered to the receipt
C10_Witness ==
    /\ Recovered
    /\ \E r \in OcrTyped :
            /\ LenOf(ItemsOf(r)) = MaxItems
            /\ content = Wrap(toJsonText(r, Indented), "fenced_padded")
            /\ recovered = Ok(r)

\* C11: for every text that is not valid JSON once trimmed and unfenced (the
\* empty string, whitespace only, a fence with nothing inside, "not json{{{",
\* text around or after a record, ...) _parse_json_response returns None:
\* it does not raise and repairs nothing.  Violated: a text that opens more
\* arrays than the interpreter recurses makes json.loads raise
\* RecursionError, which the except clause does not catch.
C11_MalformedGivesNone ==
    (Recovered /\ content \in MalformedTexts) => recovered = Ok(None)

\* C12: whatever the text, _parse_json_response returns None or a record (a
\* mapping from string keys to values); a text that is the JSON of an
\* array, string, number or boolean yields no present value.  Violated:
\* json.loads returns the array of "[1]" and the method returns it.
C12_RecoveredIsNoneOrRecord ==
    Recovered =>
        /\ ~recovered.raised
        /\ (recovered.val = None \/ IsDict(recovered.val))

-----------------------------------------------------------------------------
(* Properties of the keyword fallbacks, under SpecKeywords *)

\* the categories of the intent fallback in their priority order
Categories ==
    << [intent |-> "image_processing", words |-> {"image", "photo", "receipt", "bill"}],
       [intent |-> "simulation_query", words |-> {"what if", "simulate", "if"}],
       [intent |-> "sales_log", words |-> {"sales", "transaction", "log"}],
       [intent |-> "financial_query", words |-> {"profit", "expense", "money", "financial"}],
       [intent |-> "inventory_query", words |-> {"stock", "inventory", "product"}] >>

\* the lower-cased text holds a keyword of the i-th category
Matches(i) == \E w \in Categories[i].words : Contains(Lower(content), w)

\* the categories the text matches
Matching == {i \in DOMAIN Categories : Matches(i)}

\* the intent of the earliest matching category, general if none matches
EarliestIntent ==
    IF Matching = {} THEN "general"
    ELSE Categories[CHOOSE i \in Matching : \A j \in Matching : i <= j].intent

Classified == op = "fallback_classification"

\* C13: _fallback_classification returns, for every text, a record whose
\* intent is that of the first category, in the order image_processing,
\* simulation_query, sales_log, financial_query, inventory_query, with a
\* keyword inside the lower-cased text, general if there is none; its
\* confidence is low and its provenance fallback.  "Process this receipt
\* image" gives image_processing, "Good morning!" general.
C13_FirstMatchingCategory ==
    Classified =>
        /\ ~returned.raised
        /\ IsRecord(returned.val)
        /\ returned.val.o["intent"] = VStr(EarliestIntent)
        /\ returned.val.o["confidence"] = VStr("low")
        /\ returned.val.o["classification_source"] = VStr(FALLBACK)
        /\ (content = "Process this receipt image"
                => returned.val.o["intent"] = VStr("image_processing"))
        /\ (content = "Good morning!" => returned.val.o["intent"] = VStr("general"))

\* a text with keywords of the second and of the third category was
\* classified as the second
C13_Witness ==
    /\ Classified
    /\ Matching = {2, 3}
    /\ returned.val.o["intent"] = VStr("simulation_query")

Parsed == op = "fallback_parsing"

\* the lower-cased text holds the word
Holds(word) == Contains(Lower(content), word)

\* C14: _fallback_parsing returns, for every query, a record whose scenario
\* is increase_price when the lower-cased query holds both "increase" and
\* "price", else decrease_price when it holds both "decrease" and "price",
\* else bulk_order when it holds "bulk" or "together", else unknown; its
\* item is "unknown" and its change "0".
C14_ScenarioByKeywords ==
    Parsed =>
        /\ ~returned.raised
        /\ IsRecord(returned.val)
        /\ returned.val.o["scenario"] = VStr(
                IF Holds("increase") /\ Holds("price") THEN "increase_price"
                ELSE IF Holds("decrease") /\ Holds("price") THEN "decrease_price"
                ELSE IF Holds("bulk") \/ Holds("together") THEN "bulk_order"
                ELSE "unknown")
        /\ returned.val.o["item"] = VStr("unknown")
        /\ returned.val.o["change"] = VStr("0")

\* a query with "price" and "together" but neither "increase" nor
\* "decrease" was parsed as a bulk order
C14_Witness ==
    /\ Parsed
    /\ Holds("price") /\ Holds("together")
    /\ ~Holds("increase") /\ ~Holds("decrease")
    /\ returned.val.o["scenario"] = VStr("bulk_order")

-----------------------------------------------------------------------------
(* Properties of the pipelines, under Spec *)

\* the values a provenance tag takes
ProvenanceTags ==
    {AGREE, GPT_ONLY, GEMINI_ONLY, GPT_PREFERRED, GEMINI_PREFERRED,
     MERGED, FALLBACK, BOTH_FAILED}

\* rec is a record carrying a provenance tag under key
CarriesTag(rec, key) ==
    /\ IsRecord(rec)
    /\ key \in DOMAIN rec.o
    /\ rec.o[key].t = "str"
    /\ rec.o[key].s \in ProvenanceTags

\* the pipeline call has returned a record
Produced(pipeline) == op = pipeline /\ ~returned.raised /\ IsRecord(returned.val)

\* the record process_receipt returns carries its tag under "source"
ReceiptIsTagged ==
    Produced("process_receipt") => CarriesTag(returned.val, "source")

\* the classification of a text route carries its tag under
\* "classification_source"
ClassificationIsTagged ==
    (Produced("route_request") /\ returned.val.o["input_type"] = VStr("text"))
        => CarriesTag(returned.val.o["classification"], "classification_source")

\* the parsed_parameters simulate returns carry their tag under
\* "parsing_source"
ParametersAreTagged ==
    Produced("simulate")
        => CarriesTag(returned.val.o["parsed_parameters"], "parsing_source")

\* C9: every final record a pipeline produces carries its provenance tag,
\* with one of the allowed values: the result of process_receipt under
\* "source", the classification of a text route_request under
\* "classification_source", the parsed_parameters of simulate under
\* "parsing_source", whatever the backends yield and whichever credentials
\* are set.  Violated: without both credentials simulate takes its offline
\* path, whose parsed_parameters hold scenario, item and change only.
C9_EveryFinalRecordIsTagged ==
    ReceiptIsTagged /\ ClassificationIsTagged /\ ParametersAreTagged

-----------------------------------------------------------------------------
(* Properties of the router and of simulate, under Spec *)

Routed == op = "route_request"
Simulated == op = "simulate"

\* the router has returned a record with a status and an input type
RouteIsReported ==
    /\ ~returned.raised
    /\ IsRecord(returned.val)
    /\ {"status", "input_type"} \subseteq DOMAIN returned.val.o

\* a route whose status is failed carries an error string
FailureIsReported ==
    (RouteIsReported /\ returned.val.o["status"] = VStr("failed"))
        => /\ "error" \in DOMAIN returned.val.o
           /\ returned.val.o["error"].t = "str"

\* the router dispatched to a pipeline and the pipeline raised
PipelineFailed ==
    /\ Routed
    /\ RouteIsReported
    /\ returned.val.o["status"] = VStr("failed")

\* C15: route_request never raises: for every text or image input, every
\* outcome of the two classification backends and every behaviour of the
\* dispatched pipeline it returns a record with at least status and
\* input_type, and status failed comes with an error string.  Violated: a
\* classification backend that yields a parseable value other than an
\* object, with the other yielding nothing, makes arbitrate_classification
\* raise, and route_request calls it outside any try.
C15_RouterNeverRaises ==
    Routed => (RouteIsReported /\ FailureIsReported)

\* the offline record of simulate for a query
OfflineRecord(query) ==
    /\ ~returned.raised
    /\ returned.val = offline_result(query)

\* the route of a text went to the simulation pipeline, which returned result
DispatchedToSimulation ==
    /\ RouteIsReported
    /\ returned.val.o["input_type"] = VStr("text")
    /\ returned.val.o["routed_to"] = VStr("simulation_agent")
    /\ "result" \in DOMAIN returned.val.o

RicePriceQuery == "What if I increase rice price by 5%?"

\* C16: with both backends unavailable, route_request of the rice price
\* query classifies it by the fallback, dispatches it to the simulation
\* pipeline and returns the offline record with scenario increase_price,
\* item rice and change +5% as its result.  Violated: the router hands the
\* two absent classifications to arbitrate_classification, which calls the
\* fallback with the empty text, so the query is classified general and no
\* pipeline is called.
C16_OfflineEndToEnd ==
    (Routed /\ environ = {} /\ request.input = RicePriceQuery)
        => /\ DispatchedToSimulation
           /\ CarriesTag(returned.val.o["classification"], "classification_source")
           /\ returned.val.o["classification"].o["classification_source"] = VStr(FALLBACK)
           /\ returned.val.o["classification"].o["intent"] = VStr("simulation_query")
           /\ returned.val.o["result"] = offline_result(RicePriceQuery)
           /\ returned.val.o["result"].o["parsed_parameters"] =
                VObj(("scenario" :> VStr("increase_price"))
                     @@ ("item" :> VStr("rice"))
                     @@ ("change" :> VStr("+5%")))

\* simulate called the parsing backends and arbitrated what they yielded
ParsingArbitrated == arbitrated # Pending

\* C17: simulate takes the offline path, returning the fixed record without
\* calling a parsing backend, exactly when both credentials are unavailable;
\* with one credential or both it calls the backends and arbitrates.
\* Violated: the offline path is taken as soon as one credential is unset.
C17_OfflineOnlyWithoutBothCredentials ==
    Simulated =>
        /\ environ = {} => (OfflineRecord(request.input) /\ ~ParsingArbitrated)
        /\ environ # {} => ParsingArbitrated

ScenarioLabels == {"increase_price", "decrease_price", "bulk_order", "unknown"}

\* rec has no scenario, or one of the four labels
ScenarioIsLabel(rec) ==
    (IsRecord(rec) /\ "scenario" \in DOMAIN rec.o)
        => (rec.o["scenario"].t = "str" /\ rec.o["scenario"].s \in ScenarioLabels)

\* C18: in every result of simulate the scenario of parsed_parameters and
\* the scenario of simulation_results, when present, are among
\* increase_price, decrease_price, bulk_order and unknown.  Violated: the
\* offline path labels a query without the word increase price_change.
C18_ScenarioIsAmongFour ==
    Produced("simulate")
        => /\ ScenarioIsLabel(returned.val.o["parsed_parameters"])
           /\ ScenarioIsLabel(returned.val.o["simulation_results"])

-----------------------------------------------------------------------------
(* Properties of the calculations, under SpecCalculation *)

\* run_simulation has run the calculation of scenario on the arbitrated parse
Calculated(scenario) ==
    /\ op = "run_simulation"
    /\ Get(arbitrated.val, "scenario", None) = VStr(scenario)
    /\ ~returned.raised
    /\ IsRecord(returned.val)

\* the positions of the digits of text, and the number written by digits
DigitPositions(text) == {i \in 1..Len(text) : IsDigit(Char(text, i))}
RECURSIVE Numeral(_)
Numeral(digits) ==
    IF digits = "" THEN 0
    ELSE 10 * Numeral(SubSeq(digits, 1, Len(digits) - 1))
            + DigitValue(Char(digits, Len(digits)))

\* the first integer written in text, 10 if text holds no digit
FirstInteger(text) ==
    IF DigitPositions(text) = {} THEN 10
    ELSE LET first == CHOOSE i \in DigitPositions(text) :
                        \A j \in DigitPositions(text) : i <= j
             last == CHOOSE j \in first..Len(text) :
                        /\ (first..j) \subseteq DigitPositions(text)
                        /\ (j + 1) \notin DigitPositions(text)
         IN Numeral(SubSeq(text, first, last))

\* the bulk order calculation has run on a parse with a change field
BulkOrdered == Calculated("bulk_order") /\ "change" \in DOMAIN arbitrated.val.o

\* the discount percentage a bulk order result reports
DiscountOf(result) ==
    CHOOSE pct \in 0..100 : result.o["discount"] = VStr(NumText(pct) \o "%")

\* the bulk order result for the same parse with another change field
BulkOrderWith(change) ==
    run_simulation(VObj(("change" :> VStr(change)) @@ arbitrated.val.o), sample_data).val

PriceIncreased ==
    /\ Calculated("increase_price")
    /\ ~ChangePercent(arbitrated.val, "+").raised
    /\ "error" \notin DOMAIN returned.val.o

\* the percentage of the parse, and price, cost and weekly sales of the
\* product the calculation ran on
Percentage == ChangePercent(arbitrated.val, "+").val.n
Product ==
    Get(sample_data, Lower(Get(arbitrated.val, "item", VStr("unknown")).s),
        sample_data.o["rice"])

\* the sales multiplier a price change result reports, in percent
MultiplierOf(result) ==
    CHOOSE m \in 0..1000 : result.o["sales_impact"] = VStr(FloatText(m) \o "%")

\* reported is exact rounded to two decimals: half a cent from it at most
ToTheCent(reported, exact) ==
    LET off == RatSub(RatOf(reported), exact)
    IN  2 * Scale * Abs(off.num) <= off.den

\* C20: in the increase_price scenario with percentage pct the new price is
\* price * (1 + pct / 100) and the sales multiplier max(0.5, 1 - 0.02 * pct),
\* never below 0.5 and 0.5 from pct 25 on; price 50, cost 35 and pct 5 give
\* the new price 52.5 and the multiplier 0.9.  The result reports the new
\* price to the cent and the multiplier as a percentage; that the new
\* weekly profit is ((new price - cost) * sales * multiplier) to the cent
\* shows the new price is used unrounded.
C20_PriceIncrease ==
    PriceIncreased =>
        LET pct == Percentage
            price == RatOf(Product.o["current_price"])
            cost == RatOf(Product.o["current_cost"])
            sales == RatOf(Product.o["weekly_sales"])
            new_price == RatMul(price, Rat(100 + pct, 100))
            multiplier == MultiplierOf(returned.val)
        IN  /\ returned.val.o["current_price"] = Product.o["current_price"]
            /\ ToTheCent(returned.val.o["new_price"], new_price)
            /\ \E m \in 0..1000 : returned.val.o["sales_impact"] = VStr(FloatText(m) \o "%")
            /\ multiplier >= 50
            /\ multiplier >= 100 - 2 * pct
            /\ multiplier \in {50, 100 - 2 * pct}
            /\ pct >= 25 => multiplier = 50
            /\ ToTheCent(returned.val.o["new_weekly_profit"],
                    RatMul(RatMul(RatSub(new_price, cost), sales), Rat(multiplier, 100)))
            /\ (price = Rat(50, 1) /\ cost = Rat(35, 1) /\ pct = 5)
                    => /\ returned.val.o["new_price"] = VFloat(5250)
                       /\ multiplier = 90

\* rice at price 50 and cost 35 raised by 5 percent
C20_Witness ==
    /\ PriceIncreased
    /\ Percentage = 5
    /\ Product.o["current_price"] = VFloat(5000)
    /\ Product.o["current_cost"] = VFloat(3500)
    /\ returned.val.o["new_price"] = VFloat(5250)
    /\ returned.val.o["sales_impact"] = VStr("90.0%")

SupportedScenarios == <<"increase_price", "decrease_price", "bulk_order">>

\* the arbitrated parse names none of the supported scenarios
Unsupported ==
    \A i \in 1..Len(SupportedScenarios) :
        ~PyEq(Get(arbitrated.val, "scenario", None), VStr(SupportedScenarios[i]))

\* result is the explicit error record: scenario unknown, an error string
\* and the list of the supported scenarios
IsUnknownRecord(result) ==
    /\ IsRecord(result)
    /\ {"scenario", "error", "supported_scenarios"} \subseteq DOMAIN result.o
    /\ result.o["scenario"] = VStr("unknown")
    /\ result.o["error"].t = "str"
    /\ result.o["error"].s # ""
    /\ result.o["supported_scenarios"] =
            VList([i \in 1..Len(SupportedScenarios) |-> VStr(SupportedScenarios[i])])

\* C21: for every arbitrated parse whose scenario is none of increase_price,
\* decrease_price and bulk_order, a missing scenario included, run_simulation
\* returns the explicit error record and runs none of the three
\* calculations.  Violated: run_simulation lower-cases the item before it
\* looks at the scenario, and raises when the item of the parse is no text.
C21_UnsupportedIsReported ==
    (op = "run_simulation" /\ Unsupported)
        => /\ ~returned.raised
           /\ IsUnknownRecord(returned.val)

\* the price increase calculation has run on a product of the sample table
SampleIncreased ==
    /\ PriceIncreased
    /\ \E item \in DOMAIN SampleData.o : Product = SampleData.o[item]

\* new price, old price and cost of the calculation, in hundredths
NewPrice == NumVal(returned.val.o["new_price"])
OldPrice == NumVal(Product.o["current_price"])
Cost == NumVal(Product.o["current_cost"])

-----------------------------------------------------------------------------
(* Properties of the result logs, under SpecLog *)

\* get_simulation_stats has read a log whose entries are records with a
\* record as final result
StatsRead ==
    /\ op = "get_simulation_stats"
    /\ simulation_results.valid
    /\ \A i \in 1..Len(simulation_results.entries) :
            /\ IsRecord(simulation_results.entries[i])
            /\ "final_result" \in DOMAIN simulation_results.entries[i].o
            /\ IsRecord(simulation_results.entries[i].o["final_result"])

\* the simulation results of the entry carry no error
CarriesNoError(entry) ==
    "error" \notin
        DOMAIN Get(entry.o["final_result"], "simulation_results", EmptyDict).o

\* C23: get_simulation_stats reports the number of entries of the log as
\* total_simulations and counts as successful exactly the entries whose
\* simulation results carry no error; a log with one clean and one errored
\* simulation gives 1 successful and the rate 50, an absent log total 0 and
\* rate 0.  Violated: the error is looked for in the final result itself,
\* where simulate never puts one, so an errored simulation counts too.
C23_StatsCountCleanSimulations ==
    StatsRead =>
        LET entries == simulation_results.entries
            stats == returned.val.o
        IN  /\ stats["total_simulations"] = VNum(Len(entries))
            /\ entries = <<>> => PyEq(stats["success_rate"], VNum(0))
            /\ entries # <<>> =>
                    stats["successful_simulations"] =
                        VNum(Cardinality({i \in 1..Len(entries) :
                                            CarriesNoError(entries[i])}))
            /\ entries = <<MockClean, MockErrored>> =>
                    /\ stats["successful_simulations"] = VNum(1)
                    /\ PyEq(stats["success_rate"], VNum(50))

\* a step leaves the log as it is or appends one entry to it; a log that
\* is or becomes no JSON is a storage error
Appended(log, next) ==
    (log.valid /\ next.valid /\ next # log)
        => \E entry \in {next.entries[Len(next.entries)]} :
                next.entries = Append(log.entries, entry)

AppendOnly ==
    /\ Appended(ocr_results, ocr_results')
    /\ Appended(simulation_results, simulation_results')

\* C29: each result log is append-only: whatever the order or the overlap
\* of the calls that store their results without an error, every step that
\* changes a log keeps its entries, unchanged and in order, and adds the one
\* entry of the call; no entry is lost or overwritten.  Violated:
\* _store_results loads the list, appends and writes the list back without a
\* lock, so of two requests that loaded the same list the second to write
\* replaces the entry of the first by its own.
C29_LogIsAppendOnly == [][AppendOnly]_vars

\* without overlap (the other request has not loaded or is through) every
\* stored entry is appended
Overlap == \E r \in Requests : pc[r] = "loaded" /\ pc'[r] # "loaded" /\
                \E other \in Requests \ {r} : all_results[r].log = all_results[other].log
                    /\ pc[other] = "stored"
                    /\ Len(all_results[other].entries) = Len(all_results[r].entries)
AppendOnlyInTurn == [][~Overlap => AppendOnly]_vars

-----------------------------------------------------------------------------
(* Properties of the database step of the pipelines, under Spec *)

\* the key under which a pipeline reports the identifier of the save
IdKey == IF op = "simulate" THEN "simulation_id" ELSE "transaction_id"

\* the pipeline call asked for the save (a user_id, and save_to_db on) and
\* came to it: process_receipt always does, simulate on its online path
SaveAsked ==
    /\ op \in {"process_receipt", "simulate"}
    /\ request.db # "skipped"
    /\ (op = "simulate" => Credentials \subseteq environ)

\* the same call with no save asked for
WithoutSave ==
    IF op = "simulate"
    THEN simulate(request.input, request.current_data, gpt_output, gemini_output,
                  "skipped", "ok", environ, sample_data, EmptyFile).returned
    ELSE process_receipt(request.input, gpt_output, gemini_output,
                         "skipped", "ok", EmptyFile).returned

\* the result carries a text under key
CarriesText(result, key) ==
    /\ key \in DOMAIN result.o
    /\ result.o[key].t = "str"

\* the save does not change what the call does otherwise: it raises when
\* the call without the save raises, and the result is the result without
\* the save plus at most the identifier and the error field
SaveNeverAborts ==
    /\ returned.raised = WithoutSave.raised
    /\ returned.raised => returned = WithoutSave
    /\ ~returned.raised =>
            \A key \in DOMAIN WithoutSave.val.o :
                /\ key \in DOMAIN returned.val.o
                /\ returned.val.o[key] = WithoutSave.val.o[key]

\* C24: in process_receipt and simulate called with a user id and saving
\* enabled, a failure of the save (it raises, or it returns no identifier)
\* never aborts the call: the computed result is returned, and it carries
\* the identifier the save returned or an error text recording the failure.
\* Violated: when the save returns no identifier the pipelines log a warning
\* and return the result with neither field.
C24_SaveFailureIsRecorded ==
    (SaveAsked /\ ~WithoutSave.raised)
        => /\ SaveNeverAborts
           /\ \/ CarriesText(returned.val, IdKey)
              \/ CarriesText(returned.val, "db_save_error")

\* what the pipelines do: the save never aborts the call, an identifier is
\* reported under the key of the pipeline, an exception under
\* db_save_error, and a save that returns no identifier leaves the result
\* as it is
SaveIsReported ==
    (SaveAsked /\ ~WithoutSave.raised)
        => /\ SaveNeverAborts
           /\ request.db = "saved" => CarriesText(returned.val, IdKey)
           /\ request.db = "raises" => CarriesText(returned.val, "db_save_error")
           /\ request.db = "unsaved" => returned = WithoutSave

-----------------------------------------------------------------------------
(* The arbitrated record as an object: SpecPurity *)

\* the object an arbitration would return if it tagged its first usable
\* argument in place instead of building a dict
ReturnedObject_InPlace(gpt, gemini) ==
    IF Truthy(gpt) THEN "gpt_output"
    ELSE IF Truthy(gemini) THEN "gemini_output"
    ELSE "arbitrated"

\* the object an arbitration returns: every return of the three
\* arbitrations is a dict display ({**gpt_output, key: tag}, the merged
\* record, the both-failed record) or the dict literal of a fallback, so it
\* is a dict of its own, whatever the arguments
ReturnedObject(gpt, gemini) == "arbitrated"

\* the contents of an argument once record is the contents of the object
\* written
ContentsAfter(argument, contents, written, record) ==
    IF written = argument THEN record ELSE contents

\* the arbitration of the name
ArbitrationBy(name, gpt, gemini) ==
    CASE name = "arbitrate_ocr" -> arbitrate_ocr(gpt, gemini)
      [] name = "arbitrate_classification" -> arbitrate_classification(gpt, gemini)
      [] name = "arbitrate_parsing" -> arbitrate_parsing(gpt, gemini)

\* the outcomes the arbitration of the name is called with
OutcomesOf(name) ==
    CASE name = "arbitrate_ocr" -> OcrOutcomes
      [] name = "arbitrate_classification" -> ClassificationOutcomes
      [] name = "arbitrate_parsing" -> ParsingOutcomes

\* a call of an arbitration on the two arguments that ends with result
Returning(result) ==
    IF result.raised
    THEN UNCHANGED <<gpt_output, gemini_output, result_object>>
    ELSE /\ result_object' = ReturnedObject(gpt_output, gemini_output)
         /\ gpt_output' =
                ContentsAfter("gpt_output", gpt_output, result_object', result.val)
         /\ gemini_output' =
                ContentsAfter("gemini_output", gemini_output, result_object', result.val)

\* the first call of an arbitration on two backend outcomes
ArbitrateOnce ==
    /\ op = "init"
    /\ \E name \in {"arbitrate_ocr", "arbitrate_classification", "arbitrate_parsing"} :
            /\ gpt_output \in OutcomesOf(name) /\ gemini_output \in OutcomesOf(name)
            /\ op' = name
            /\ \E result \in {ArbitrationBy(name, gpt_output, gemini_output)} :
                    arbitrated' = result /\ Returning(result)
    /\ UNCHANGED <<recovery_vars, pipeline_vars, log_vars>>

\* process_receipt adds its metadata: final_result.update({...}) writes into
\* the object arbitrate_ocr returned
AddMetadata ==
    /\ op = "arbitrate_ocr"
    /\ ~arbitrated.raised
    /\ \E image_path \in ImageFiles :
        \E final_result \in {receipt_result(image_path, gpt_output, gemini_output,
                                            arbitrated.val)} :
            /\ returned' = Ok(final_result)
            /\ request' = Request(image_path, None, "skipped")
            /\ gpt_output' =
                ContentsAfter("gpt_output", gpt_output, result_object, final_result)
            /\ gemini_output' =
                ContentsAfter("gemini_output", gemini_output, result_object, final_result)
    /\ op' = "process_receipt"
    /\ UNCHANGED <<arbitrated, result_object, recovery_vars, environ, sample_data,
                   ocr_results, simulation_results, log_vars>>

\* the same arbitration is called once more on the same two arguments
ArbitrateAgain ==
    /\ op \in {"process_receipt", "arbitrate_classification", "arbitrate_parsing"}
    /\ \E name \in {IF op = "process_receipt" THEN "arbitrate_ocr" ELSE op} :
        \E result \in {ArbitrationBy(name, gpt_output, gemini_output)} :
            arbitrated' = result /\ Returning(result)
    /\ op' = "again"
    /\ UNCHANGED <<recovery_vars, pipeline_vars, log_vars>>

NextPurity == ArbitrateOnce \/ AddMetadata \/ ArbitrateAgain

\* an arbitration, the metadata of the pipeline, and the arbitration again
SpecPurity == InitArbitration /\ [][NextPurity]_vars

\* no step changes the arguments of the arbitration
InputsKept == gpt_output' = gpt_output /\ gemini_output' = gemini_output

\* the second call returns what the first returned
SameAgain == op' = "again" => arbitrated' = arbitrated

-----------------------------------------------------------------------------
(* The empty record and None in the arbitrations, under SpecArbitration *)

\* a backend outcome that is None or the empty record
Absent(v) == v = None \/ v = EmptyDict

\* the outcomes that differ from v at most by None for {} or {} for None
Replacements(v) == IF Absent(v) THEN {None, EmptyDict} ELSE {v}

\* the arbitration returns the same for every replacement of its arguments
SameForReplacements ==
    \A gpt \in Replacements(gpt_output), gemini \in Replacements(gemini_output) :
        ArbitrationBy(op, gpt, gemini) = arbitrated

\* C26: in all three arbitrations an empty record from a backend is treated
\* as an absent (None) outcome: for every pair of backend outcomes,
\* replacing None by {} or {} by None on either side or on both yields the
\* same arbitrated record with the same provenance.  Violated: two empty
\* records are equal and not None, so the first branch returns the agree
\* record, while None on either side gives the both-failed record or the
\* fallback.
C26_EmptyIsAbsent == Arbitrated => SameForReplacements

\* what the arbitrations do: the replacement changes nothing unless it
\* yields or undoes the pair of two empty records
EmptyIsAbsentButForTwoEmpty ==
    Arbitrated =>
        \A gpt \in Replacements(gpt_output), gemini \in Replacements(gemini_output) :
            (<<gpt, gemini>> = <<EmptyDict, EmptyDict>>)
                = (<<gpt_output, gemini_output>> = <<EmptyDict, EmptyDict>>)
                    => ArbitrationBy(op, gpt, gemini) = arbitrated

-----------------------------------------------------------------------------
(* The backfill of the OCR merge, under SpecArbitration *)

\* arbitrate_ocr merged the two records
Merged == op = "arbitrate_ocr" /\ Tagged(arbitrated, "source", MERGED)

\* the fields the merge sets itself
MergeKeys == {"items", "total", "source"}

\* the merged record is its own three fields plus the other fields of rec
BackfilledFrom(rec) ==
    /\ DOMAIN arbitrated.val.o = MergeKeys \cup DOMAIN rec.o
    /\ \A k \in DOMAIN rec.o \ MergeKeys : arbitrated.val.o[k] = rec.o[k]

\* the backfill left the three fields as the merge set them
MergeFieldsKept ==
    /\ arbitrated.val.o["source"] = VStr(MERGED)
    /\ arbitrated.val.o["items"] =
            MergeItems(ItemsOf(gpt_output), Elems(ItemsOf(gemini_output))).val
    /\ arbitrated.val.o["total"] =
            PyMax(Get(gpt_output, "total", VNum(0)),
                  Get(gemini_output, "total", VNum(0))).val

\* C27: in the OCR merge the remaining top-level fields are backfilled from
\* the source record with more top-level keys, from the primary when both
\* have equally many, and the backfill never overwrites the items, total or
\* source the merge has set.  Violated: the primary is used only when it has
\* strictly more keys, so on a tie the fields come from the secondary.
C27_BackfillFromTheFuller ==
    Merged
        => /\ MergeFieldsKept
           /\ BackfilledFrom(IF LenOf(gpt_output) >= LenOf(gemini_output)
                             THEN gpt_output ELSE gemini_output)

\* what the merge does: the backfill is from the primary when it has more
\* keys than the secondary and from the secondary otherwise
BackfillFromSecondaryOnTie ==
    Merged
        => /\ MergeFieldsKept
           /\ BackfilledFrom(IF LenOf(gpt_output) > LenOf(gemini_output)
                             THEN gpt_output ELSE gemini_output)

-----------------------------------------------------------------------------
(* The success flags of process_receipt, under Spec *)

\* the flag of a backend in the result of process_receipt
Flag(key) == returned.val.o[key] = VBool(TRUE)

\* the result of process_receipt carries the provenance tag
SourceIs(tags) ==
    /\ "source" \in DOMAIN returned.val.o
    /\ \E tag \in tags : returned.val.o["source"] = VStr(tag)

\* C28: in every result of process_receipt the two success flags agree with
\* the provenance: both_failed comes with both flags false, gpt_only with
\* gemini_success false, gemini_only with gpt_success false, and the agree,
\* preferred and merged tags with both flags true.  Violated: a flag is
\* 'result is not None', and a backend that yields the empty record counts
\* as failed in the arbitration but as a success in its flag.
C28_FlagsAgreeWithProvenance ==
    Produced("process_receipt")
        => /\ SourceIs({BOTH_FAILED}) => ~Flag("gpt_success") /\ ~Flag("gemini_success")
           /\ SourceIs({GPT_ONLY}) => ~Flag("gemini_success")
           /\ SourceIs({GEMINI_ONLY}) => ~Flag("gpt_success")
           /\ SourceIs({AGREE, GPT_PREFERRED, GEMINI_PREFERRED, MERGED})
                => Flag("gpt_success") /\ Flag("gemini_success")

\* what process_receipt does: a flag tells whether the backend yielded
\* anything but None, so the tags that need two records come with both
\* flags true, and a backend whose flag is false was not used
FlagsTellNotNone ==
    Produced("process_receipt")
        => /\ Flag("gpt_success") = (gpt_output # None)
           /\ Flag("gemini_success") = (gemini_output # None)
           /\ SourceIs({AGREE, GPT_PREFERRED, GEMINI_PREFERRED, MERGED})
                => Flag("gpt_success") /\ Flag("gemini_success")
           /\ SourceIs({GPT_ONLY}) => Flag("gpt_success")
           /\ SourceIs({GEMINI_ONLY}) => Flag("gemini_success")

-----------------------------------------------------------------------------
(* The product table over the calls of one agent: SpecSession *)

\* the current_data a caller passes: none, an empty record, a new record
\* for rice, a product the table does not have
SessionData == CurrentData \cup {EmptyDict, VObj("tea" :> Tea)}

\* the parses run_simulation is called with in a session
SessionParses ==
    {parsed("increase_price", "rice", "+10%"),
     parsed("decrease_price", "Tea", "-10%"),
     parsed("increase_price", "salt", "+5%"),
     parsed("bulk_order", "sugar", "10 shops"),
     parsed("discount", "rice", "absent")}

\* what the parsing backends yield in a session: nothing, a parse of a
\* price increase, or one whose item is null (run_simulation raises on it)
SessionOutcomes ==
    {outcome \in ParsingBackendOutcomes :
        \/ outcome = None
        \/ IsDict(outcome) /\ Get(outcome, "scenario", None) = VStr("increase_price")}

\* a new agent: the sample data as loaded and no call made.  The result log
\* is no JSON, so every _store_results of the session fails, is logged and
\* swallowed, and the log stays as it is.
InitSession ==
    /\ op = "init"
    /\ IdleArbitration
    /\ IdleRecovery
    /\ environ \in SUBSET Credentials
    /\ sample_data = SampleData
    /\ ocr_results = EmptyFile
    /\ simulation_results = BrokenFile
    /\ request = NoRequest
    /\ returned = Pending
    /\ IdleLog

\* a call of simulate(query, current_data) on the agent, without a user_id
SimulateNext ==
    /\ \E outcomes \in {SessionOutcomes} :
       \E gpt_parsed \in OutcomesWith("OPENAI_API_KEY", outcomes),
          gemini_parsed \in OutcomesWith("GOOGLE_API_KEY", outcomes),
          query \in Queries, current_data \in SessionData :
          \E call \in {simulate(query, current_data, gpt_parsed, gemini_parsed,
                             "skipped", "ok", environ, sample_data,
                             simulation_results)} :
                /\ op' = "simulate"
                /\ request' = Request(query, current_data, "skipped")
                /\ returned' = call.returned
                /\ sample_data' = call.data
                /\ simulation_results' = call.file
                /\ Record(call.arbitration)
    /\ UNCHANGED <<environ, ocr_results, recovery_vars, log_vars>>

\* a call of run_simulation(parsed_params) on the agent
RunSimulationNext ==
    /\ \E parsed_params \in SessionParses :
            /\ arbitrated' = Ok(parsed_params)
            /\ returned' = run_simulation(parsed_params, sample_data)
    /\ op' = "run_simulation"
    /\ request' = NoRequest
    /\ UNCHANGED <<gpt_output, gemini_output, result_object, recovery_vars, environ,
                   sample_data, ocr_results, simulation_results, log_vars>>

NextSession == SimulateNext \/ RunSimulationNext

\* any number of simulate and run_simulation calls on one agent
SpecSession == InitSession /\ [][NextSession]_vars

\* the step merges the current_data of a simulate call into the table, entry
\* by entry, and leaves every other entry; any other step leaves the table
TableUpdated ==
    IF op' = "simulate" /\ Truthy(request'.current_data)
    THEN /\ DOMAIN sample_data'.o =
                DOMAIN sample_data.o \cup DOMAIN request'.current_data.o
         /\ \A item \in DOMAIN request'.current_data.o :
                sample_data'.o[item] = request'.current_data.o[item]
         /\ \A item \in DOMAIN sample_data.o \ DOMAIN request'.current_data.o :
                sample_data'.o[item] = sample_data.o[item]
    ELSE sample_data' = sample_data

\* the last call ran a calculation: run_simulation, or simulate with both
\* credentials
Computed ==
    /\ ~returned.raised
    /\ \/ op = "run_simulation"
       \/ op = "simulate" /\ Credentials \subseteq environ

\* the record of the calculation
Outcome ==
    IF op = "simulate" THEN returned.val.o["simulation_results"] ELSE returned.val

\* the entry of the table a calculation for the item reads: the item's, or
\* the rice entry for an item the table does not have
TableEntry(item) ==
    IF Lower(item) \in DOMAIN sample_data.o
    THEN sample_data.o[Lower(item)] ELSE sample_data.o["rice"]

\* a calculation that reports the current price reports the price of the
\* table as it is now
ReadsTable ==
    (Computed /\ "current_price" \in DOMAIN Outcome.o)
        => Outcome.o["current_price"] =
                TableEntry(Outcome.o["item"].s).o["current_price"]

\* C30: the product data passed to simulate as current_data are merged into
\* the product table before anything else, also on the offline path and
\* when the call raises later, and stay there: no later call removes or
\* resets an entry, and every later simulate or run_simulation, also one
\* without current_data, computes with the table as the calls so far have
\* left it.
C30_CurrentDataStays == [][TableUpdated /\ ReadsTable']_vars

\* after a simulate that replaced the rice entry, a run_simulation (a call
\* without current_data) for an item the table does not have computed with
\* the new rice price, not the 50.0 of the sample data
C30_Witness ==
    /\ op = "run_simulation"
    /\ sample_data.o["rice"] # SampleData.o["rice"]
    /\ Computed
    /\ Outcome.o["item"] = VStr("salt")
    /\ Outcome.o["current_price"] = VFloat(60 * Scale)

=============================================================================
